---- MODULE Spec2Model ----
(***************************************************************************)
(* A model of waku's multi-device session registry (services/whatsapp.go), *)
(* its pairing relay and status derivation (handlers/session.go) and its   *)
(* webhook dispatcher (services/webhook.go).                               *)
(*                                                                         *)
(* The whatsmeow client is an external collaborator.  What the model keeps *)
(* of it, per client: Store.ID (nil or the paired phone), the link state   *)
(* ("starting": Connect() is still to be called by the goroutine that      *)
(* CreateSession started, "closed": Connect() failed or Disconnect() was   *)
(* called, "open": connected and not authenticated, "authed":              *)
(* IsLoggedIn()),                                                          *)
(* and whether a Connected event is in flight.  It emits QR codes only     *)
(* while it has no Store.ID, authenticates only with a Store.ID, and       *)
(* delivers the events of one client one at a time.                        *)
(***************************************************************************)
EXTENDS Integers, Sequences, FiniteSets, TLC

\* ------------------------------------------------------------------ bounds
\* Session objects ever allocated (by CreateSession or loadSession).
MaxHandles == 2
\* Concurrent GET /qr/:device_id requests.
NumPollers == 2
\* Codes in the one events.QR a client emits in the registry specification.
MaxQR == 1
\* QR codes one client emits in the pairing-queue specification.
MaxPush == 7
\* Codes in one events.QR batch.
MaxBatch == 2
\* CreateSession calls traced step by step.
MaxCalls == 3
\* Delivery tasks in the dispatcher specification.
MaxTasks == 2
\* Seconds a sleeping delivery task is followed for.
MaxSlept == 4
\* The largest WEBHOOK_RETRY tried where the sleeps are measured.
MaxRetry == 4

\* ------------------------------------------------------- program constants
\* make(chan string, 5)
QRChanCap == 5
\* retryCount = 3 when WEBHOOK_RETRY is unset or 0
DefaultRetry == 3

Devices == {"d1", "d2"}
\* os.ReadDir returns the entries sorted by name.
DevSeq == <<"d1", "d2">>
Phones == {"628123456789"}
Nil == "nil"
NoHandle == 0
\* The session directory of a device: absent, a session.db with no paired
\* device in it, or a session.db holding the paired phone.
NoDir == "nodir"
NoID == "noid"
DiskStates == {NoDir, NoID} \cup Phones
\* A device directory without a session.db, as only something other than
\* this program leaves it.
NoStore == "nostore"
\* time.Time: the zero value, or a value taken from time.Now().
ZeroTime == "zero"
SetTime == "set"

VARIABLES
    loadPos,    \* loadExistingSessions: index in DevSeq of the next entry
    clients,    \* WhatsAppService.clients: device id -> session object
    heap,       \* the DeviceClient objects ever allocated, by handle
    disk,       \* SESSION_DIR/<device id>
    resp,       \* the last response an HTTP handler gave
    polls,      \* the GET /qr requests: where each one is
    inbound,    \* message events delivered to registered sessions
    tasks,      \* the sendWithRetry goroutines ever started
    cfg,        \* the WebhookService fields InitWebhookService set
    calls       \* the CreateSession calls that are traced step by step

vars == <<loadPos, clients, heap, disk, resp, polls, inbound, tasks, cfg, calls>>

Handles == 1..Len(heap)
\* The objects that are not garbage yet.
Live(h) == heap[h].link # "gone"
Pollers == 1..NumPollers
Serving == loadPos > Len(DevSeq)
Registered(h) == clients[heap[h].DeviceID] = h

Min(a, b) == IF a < b THEN a ELSE b
Max(a, b) == IF a > b THEN a ELSE b
\* The last n elements of s.
LastN(s, n) == SubSeq(s, Len(s) - Min(n, Len(s)) + 1, Len(s))
\* <<a, a+1, ..., b>>
Range(a, b) == [i \in 1..Max(b - a + 1, 0) |-> a + i - 1]

\* A request in GetQRCode: where it is, the session it holds, whether the
\* session turned Connected while it waited, the code it was handed, and the
\* seconds it has been blocked (counted only where the clock is modelled).
\* A response: the operation, the result, the phone or the code it carries,
\* and (for a poll) whether the session turned Connected during the wait and
\* whether a Connected event had reached it.
Resp(op, res) ==
    [op |-> op, res |-> res, phone |-> "", code |-> 0, mid |-> FALSE, est |-> FALSE]
NoResp == Resp("none", "")
IdlePoll ==
    [pc |-> "idle", h |-> NoHandle, mid |-> FALSE, code |-> 0, waited |-> 0]

\* ----------------------------------------------------------- the session
\* &DeviceClient{Client: client, DeviceID: deviceID, QRChan: make(chan string, 5)}
\* with the client's own state beside it.
NewDeviceClient(d, storeID) ==
    [DeviceID |-> d, QRChan |-> <<>>, Connected |-> FALSE, Phone |-> "",
     ConnectedAt |-> ZeroTime, EventHandler |-> "nil",
     StoreID |-> storeID, link |-> "closed",
     evPending |-> FALSE, emitted |-> 0, backed |-> TRUE,
     established |-> FALSE, consumed |-> FALSE]

\* A session object nothing refers to any more: it is not in the table, no
\* request holds it, and its client is closed with no event in flight.  The
\* garbage collector frees it; the model keeps a "gone" place holder.
Gone(d) == [NewDeviceClient(d, Nil) EXCEPT !.link = "gone", !.backed = FALSE]

Unreachable(hp, cl, pl, h) ==
    /\ cl[hp[h].DeviceID] # h
    /\ hp[h].link \in {"closed", "gone"}
    /\ ~hp[h].evPending
    /\ \A p \in DOMAIN pl : pl[p].h # h

Collect(hp, cl, pl) ==
    [h \in DOMAIN hp |->
        IF Unreachable(hp, cl, pl, h) THEN Gone(hp[h].DeviceID) ELSE hp[h]]

\* container.GetFirstDevice: the stored device, or a new one with no ID.
GetFirstDevice(d) == IF disk[d] \in Phones THEN disk[d] ELSE Nil

\* client.IsLoggedIn()
IsLoggedIn(s) == s.link = "authed"

\* client.Disconnect(): closes the link, if there is one; an event already
\* dispatched stays in flight, and a Connect() not yet made is still to come.
Disconnect(s) == [s EXCEPT !.link = IF @ = "starting" THEN @ ELSE "closed"]

\* The status GetSessionStatus and ListSessions derive.
StatusOf(s) ==
    IF s.Connected THEN "connected"
    ELSE IF s.StoreID = Nil THEN "waiting_for_qr_scan"
    ELSE "disconnected"

\* GetSession: the handle, or NoHandle for "session not found".
GetSession(d) == clients[d]

\* GET /session/:device_id/status
GetSessionStatus(d) ==
    IF GetSession(d) = NoHandle THEN "not_found" ELSE StatusOf(heap[GetSession(d)])


\* ------------------------------------------------------------ construction
\* InitWebhookService: WEBHOOK_ENABLED, WEBHOOK_URL, WEBHOOK_RETRY (Atoi
\* gives 0 when unset or unparsable).
InitWebhookService(env) ==
    [enabled |-> env.enabled, webhookURL |-> env.url,
     retryCount |-> IF env.retry = 0 THEN DefaultRetry ELSE env.retry]

\* WEBHOOK_RETRY unset, 1, 2 and 3, the dispatcher on.
RetryEnvs ==
    { [enabled |-> TRUE, url |-> "http://hook", retry |-> r] : r \in 0..3 }

\* GetWhatsAppService: an empty table; the session directory is whatever
\* earlier runs of the program left.
InitWith(envs, disks) ==
    /\ loadPos = 1
    /\ clients = [d \in Devices |-> NoHandle]
    /\ heap = <<>>
    /\ disk \in disks
    /\ resp = NoResp
    /\ polls = [p \in Pollers |-> IdlePoll]
    /\ inbound = 0
    /\ tasks = <<>>
    /\ cfg \in {InitWebhookService(e) : e \in envs}
    /\ calls = <<>>

\* Session directories in which only d1 may have been used before.
OneUsed == {dk \in [Devices -> DiskStates] : dk["d2"] = NoDir}
\* Session directories in which d1 is absent or paired.
OnePaired == {dk \in OneUsed : dk["d1"] # NoID}

DefaultEnv == {[enabled |-> TRUE, url |-> "http://hook", retry |-> 0]}

Init == InitWith(DefaultEnv, OneUsed)

\* loadSession that never looks at client.IsLoggedIn().
LoadSessionUnmarked(d, ok, logged) ==
    LET s0 == NewDeviceClient(d, GetFirstDevice(d))
        s1 == [s0 EXCEPT !.link = IF logged THEN "authed" ELSE "open",
                         !.evPending = logged]
    IN IF clients[d] # NoHandle \/ ~ok
       THEN UNCHANGED <<clients, heap>>
       ELSE /\ heap' = Append(heap, s1)
            /\ clients' = [clients EXCEPT ![d] = Len(heap) + 1]

\* loadSession(deviceID): registers the session unless it fails before, and
\* marks it connected when the client is already logged in.
LoadSession(d, ok, logged) ==
    LET s0 == NewDeviceClient(d, GetFirstDevice(d))
        s1 == [s0 EXCEPT !.link = IF logged THEN "authed" ELSE "open",
                         !.evPending = logged]
        s2 == IF logged
              THEN [s1 EXCEPT !.Connected = TRUE, !.Phone = s1.StoreID,
                              !.ConnectedAt = SetTime]
              ELSE s1
    IN IF clients[d] # NoHandle \/ ~ok
       THEN UNCHANGED <<clients, heap>>
       ELSE /\ heap' = Append(heap, s2)
            /\ clients' = [clients EXCEPT ![d] = Len(heap) + 1]

\* What loadSession can fail with: sqlstore.New ("open"), GetFirstDevice
\* ("device"), client.Connect ("connect").
LoadErrors == {"none", "open", "device", "connect"}

\* loadExistingSessions that returns at the first loadSession error.
LoadStepStopsOnError ==
    /\ ~Serving
    /\ LET d == DevSeq[loadPos] IN
         IF disk[d] \in {NoDir, NoStore}
         THEN /\ loadPos' = loadPos + 1
              /\ UNCHANGED <<clients, heap>>
         ELSE /\ Len(heap) < MaxHandles
              /\ \E err \in LoadErrors, logged \in BOOLEAN :
                   /\ logged => (err = "none" /\ disk[d] \in Phones)
                   /\ LoadSession(d, err = "none", logged)
                   /\ loadPos' = IF err = "none" THEN loadPos + 1 ELSE Len(DevSeq) + 1
    /\ UNCHANGED <<disk, resp, polls, inbound, tasks, cfg, calls>>

\* One iteration of loadExistingSessions over the directory entries: an
\* entry without session.db is skipped, and so is one loadSession fails on.
LoadStep ==
    /\ ~Serving
    /\ LET d == DevSeq[loadPos] IN
         IF disk[d] \in {NoDir, NoStore}
         THEN UNCHANGED <<clients, heap>>
         ELSE /\ Len(heap) < MaxHandles
              /\ \E err \in LoadErrors, logged \in BOOLEAN :
                   /\ logged => (err = "none" /\ disk[d] \in Phones)
                   /\ LoadSession(d, err = "none", logged)
    /\ loadPos' = loadPos + 1
    /\ UNCHANGED <<disk, resp, polls, inbound, tasks, cfg, calls>>

\* ---------------------------------------------------------------- registry
\* CreateSession without the check for an existing session: the entry is
\* overwritten.
CreateSessionOverwrite(d) ==
    /\ Serving
    /\ Len(heap) < MaxHandles
    /\ heap' = Append(heap,
         [NewDeviceClient(d, GetFirstDevice(d)) EXCEPT
             !.link = "starting", !.EventHandler = "set"])
    /\ clients' = [clients EXCEPT ![d] = Len(heap) + 1]
    /\ disk' = [disk EXCEPT ![d] = IF @ = NoDir THEN NoID ELSE @]
    /\ resp' = Resp("create", "ok")
    /\ UNCHANGED <<loadPos, polls, inbound, tasks, cfg, calls>>

\* handlers.CreateSession: WhatsAppService.CreateSession answers a duplicate
\* with the error; otherwise it stores the session and starts the connect
\* goroutine, and the handler calls SetupEventHandler (the moment between the
\* two, in which EventHandler is still nil, is not kept apart).
CreateSession(d) ==
    /\ Serving
    /\ IF clients[d] # NoHandle
       THEN /\ resp' = Resp("create", "AlreadyExists")
            /\ UNCHANGED <<clients, heap, disk>>
       ELSE /\ Len(heap) < MaxHandles
            /\ heap' = Append(heap,
                 [NewDeviceClient(d, GetFirstDevice(d)) EXCEPT
                     !.link = "starting", !.EventHandler = "set"])
            /\ clients' = [clients EXCEPT ![d] = Len(heap) + 1]
            /\ disk' = [disk EXCEPT ![d] = IF @ = NoDir THEN NoID ELSE @]
            /\ resp' = Resp("create", "ok")
    /\ UNCHANGED <<loadPos, polls, inbound, tasks, cfg, calls>>

\* Logout that also forgets who was logged in.
LogoutClearsPhone(d) ==
    /\ Serving
    /\ IF clients[d] = NoHandle
       THEN /\ resp' = Resp("logout", "NotFound")
            /\ UNCHANGED heap
       ELSE /\ heap' = [heap EXCEPT ![clients[d]] =
                          [Disconnect(@) EXCEPT !.Connected = FALSE, !.Phone = ""]]
            /\ resp' = Resp("logout", "ok")
    /\ UNCHANGED <<loadPos, clients, disk, polls, inbound, tasks, cfg, calls>>

\* WhatsAppService.Logout
Logout(d) ==
    /\ Serving
    /\ IF clients[d] = NoHandle
       THEN /\ resp' = Resp("logout", "NotFound")
            /\ UNCHANGED heap
       ELSE /\ heap' = [heap EXCEPT ![clients[d]] =
                          [Disconnect(@) EXCEPT !.Connected = FALSE]]
            /\ resp' = Resp("logout", "ok")
    /\ UNCHANGED <<loadPos, clients, disk, polls, inbound, tasks, cfg, calls>>

\* os.RemoveAll of SESSION_DIR itself.
RemoveAllRoot(d, rmOk) == IF rmOk THEN [x \in Devices |-> NoDir] ELSE disk

\* DeleteSession without the os.RemoveAll.
RemoveAllSkipped(d, rmOk) == disk

\* What DeleteSession leaves of the session directory: os.RemoveAll removes
\* it, or fails and leaves it.
RemoveAll(d, rmOk) == IF rmOk THEN [disk EXCEPT ![d] = NoDir] ELSE disk

\* DeleteSession that removes the session directory before it looks the
\* session up.
DeleteSessionWipeFirst(d) ==
    /\ Serving
    /\ IF clients[d] = NoHandle
       THEN /\ resp' = Resp("delete", "NotFound")
            /\ disk' = RemoveAll(d, TRUE)
            /\ UNCHANGED <<clients, heap>>
       ELSE \E rmOk \in BOOLEAN :
            /\ clients' = [clients EXCEPT ![d] = NoHandle]
            /\ heap' = Collect([h \in Handles |->
                 LET s == IF h = clients[d] THEN Disconnect(heap[h]) ELSE heap[h]
                 IN IF rmOk /\ s.DeviceID = d THEN [s EXCEPT !.backed = FALSE] ELSE s],
                 clients', polls)
            /\ disk' = RemoveAll(d, rmOk)
            /\ resp' = Resp("delete", IF rmOk THEN "ok" ELSE "error")
    /\ UNCHANGED <<loadPos, polls, inbound, tasks, cfg, calls>>

\* WhatsAppService.DeleteSession
DeleteSession(d) ==
    /\ Serving
    /\ IF clients[d] = NoHandle
       THEN /\ resp' = Resp("delete", "NotFound")
            /\ UNCHANGED <<clients, heap, disk>>
       ELSE \E rmOk \in BOOLEAN :
            /\ clients' = [clients EXCEPT ![d] = NoHandle]
            /\ heap' = Collect([h \in Handles |->
                 LET s == IF h = clients[d] THEN Disconnect(heap[h]) ELSE heap[h]
                 IN IF rmOk /\ s.DeviceID = d THEN [s EXCEPT !.backed = FALSE] ELSE s],
                 clients', polls)
            /\ disk' = RemoveAll(d, rmOk)
            /\ resp' = Resp("delete", IF rmOk THEN "ok" ELSE "error")
    /\ UNCHANGED <<loadPos, polls, inbound, tasks, cfg, calls>>

\* ----------------------------------------------------- delivery tasks
\* A sendWithRetry goroutine: the loop variable, where it is ("spawned",
\* "send": in w.send, "sleep": in time.Sleep, "done"), the attempts started,
\* their outcomes, the seconds slept so far, and the seconds that passed
\* between the last failure and the attempt in flight.  reg: the session was
\* registered when its message arrived.
NewTask(d, reg) ==
    [dev |-> d, reg |-> reg, attempt |-> 0, pc |-> "spawned", sent |-> 0,
     hist |-> <<>>, slept |-> 0, gap |-> 0]

\* w.sendWithRetry(payload) called without go: the caller waits until the
\* delivery is over.
RouterWaitsForDelivery(t) == t.pc # "done"

\* go w.sendWithRetry(payload): the caller does not wait for the goroutine.
RouterWaitsFor(t) == FALSE

\* eventHandler runs when the router is not held by a delivery.
RouterFree == \A i \in 1..Len(tasks) : ~RouterWaitsFor(tasks[i])

\* ------------------------------------------------------------ event router
\* A non-blocking send that gives up on a full channel.
PushCodeDropNew(q, c) ==
    IF Len(q) < QRChanCap THEN Append(q, c) ELSE q

\* eventHandler, *events.QR, one code: a non-blocking send; on a full channel
\* the oldest code is received and the new one sent.
PushCode(q, c) ==
    IF Len(q) < QRChanCap THEN Append(q, c) ELSE Append(Tail(q), c)

RECURSIVE PushCodes(_, _)
\* for _, code := range v.Codes
PushCodes(q, codes) ==
    IF codes = <<>> THEN q
    ELSE PushCodes(PushCode(q, Head(codes)), Tail(codes))

\* The Connected case without the copy of Store.ID.User into Phone.
OnConnectedNoPhone(s) ==
    [s EXCEPT !.Connected = TRUE, !.ConnectedAt = SetTime]

\* eventHandler, *events.Connected
OnConnected(s) ==
    [s EXCEPT !.Connected = TRUE, !.ConnectedAt = SetTime,
              !.Phone = IF s.StoreID # Nil THEN s.StoreID ELSE @]

\* The Disconnected case that also forgets the phone.
OnDisconnectedClearsPhone(s) == [s EXCEPT !.Connected = FALSE, !.Phone = ""]

\* eventHandler, *events.Disconnected
OnDisconnected(s) == [s EXCEPT !.Connected = FALSE]

\* eventHandler, *events.PairSuccess: nothing.
OnPairSuccess(s) == s

\* The requests blocked in a select on the session's QRChan.
Waiting(h) == {p \in Pollers : polls[p].h = h /\ polls[p].pc \in {"wait1", "wait2"}}

\* All orders of a finite set, as sequences.
Orders(S) ==
    {f \in [1..Cardinality(S) -> S] : \A i, j \in 1..Cardinality(S) : i # j => f[i] # f[j]}

\* Every request waiting on h learns that h turned Connected during its wait.
MarkMid(h) ==
    [p \in Pollers |-> IF p \in Waiting(h) THEN [polls[p] EXCEPT !.mid = TRUE] ELSE polls[p]]

\* go s.connectWithQR(dc) / go s.reconnect(dc): Client.Connect(), which may fail.
AsyncConnect(h) ==
    /\ heap[h].link = "starting"
    /\ \E ok \in BOOLEAN :
         heap' = Collect([heap EXCEPT ![h].link = IF ok THEN "open" ELSE "closed"],
                         clients, polls)
    /\ UNCHANGED <<loadPos, clients, disk, resp, polls, inbound, tasks, cfg, calls>>

\* An events.QR with n codes.  A send on a channel hands the value to a
\* blocked receiver, if there is one, and buffers it otherwise.
EvQR(h, n, limit) ==
    /\ RouterFree
    /\ heap[h].link = "open" /\ heap[h].StoreID = Nil
    /\ heap[h].emitted + n <= limit
    /\ \E ord \in Orders(Waiting(h)) :
         LET k == Min(n, Len(ord))
             first == heap[h].emitted + 1
             rest == Range(first + k, first + n - 1)
         IN /\ polls' = [p \in Pollers |->
                   IF \E i \in 1..k : ord[i] = p
                   THEN [polls[p] EXCEPT !.pc = "got",
                            !.code = first + (CHOOSE i \in 1..k : ord[i] = p) - 1]
                   ELSE polls[p]]
            /\ heap' = [heap EXCEPT ![h].QRChan = PushCodes(@, rest),
                                    ![h].emitted = @ + n,
                                    ![h].consumed = @ \/ k > 0]
    /\ UNCHANGED <<loadPos, clients, disk, resp, inbound, tasks, cfg, calls>>

\* The phone scans a code: the client stores its ID (in session.db too, if
\* the directory is still there) and dispatches events.PairSuccess.
EvPairSuccess(h, ph) ==
    /\ RouterFree
    /\ heap[h].link = "open" /\ heap[h].StoreID = Nil /\ heap[h].emitted > 0
    /\ heap' = [heap EXCEPT ![h] = OnPairSuccess([@ EXCEPT !.StoreID = ph])]
    /\ disk' = IF heap[h].backed THEN [disk EXCEPT ![heap[h].DeviceID] = ph] ELSE disk
    /\ UNCHANGED <<loadPos, clients, resp, polls, inbound, tasks, cfg, calls>>

\* The client authenticates: IsLoggedIn() turns true and events.Connected is
\* dispatched, to be handled later.
LibAuth(h) ==
    /\ heap[h].link = "open" /\ heap[h].StoreID # Nil /\ ~heap[h].evPending
    /\ heap' = [heap EXCEPT ![h].link = "authed", ![h].evPending = TRUE]
    /\ UNCHANGED <<loadPos, clients, disk, resp, polls, inbound, tasks, cfg, calls>>

\* events.Connected reaches eventHandler.
EvConnected(h) ==
    /\ RouterFree
    /\ heap[h].evPending
    /\ polls' = IF heap[h].Connected THEN polls ELSE MarkMid(h)
    /\ heap' = Collect([heap EXCEPT ![h] =
                  [OnConnected(@) EXCEPT !.evPending = FALSE, !.established = TRUE]],
                  clients, polls')
    /\ UNCHANGED <<loadPos, clients, disk, resp, inbound, tasks, cfg, calls>>

\* The link is lost: events.Disconnected reaches eventHandler and the client
\* reconnects on its own.
EvDisconnected(h) ==
    /\ RouterFree
    /\ heap[h].link \in {"open", "authed"} /\ ~heap[h].evPending
    /\ heap' = [heap EXCEPT ![h] = [OnDisconnected(@) EXCEPT !.link = "open"]]
    /\ UNCHANGED <<loadPos, clients, disk, resp, polls, inbound, tasks, cfg, calls>>

\* ---------------------------------------------------------------- webhook
\* HandleIncomingMessage without the check of enabled and webhookURL.
HandleIncomingMessageAlways(d, reg) == Append(tasks, NewTask(d, reg))

\* HandleIncomingMessage: nothing when disabled or without a URL.
HandleIncomingMessage(d, reg) ==
    IF ~cfg.enabled \/ cfg.webhookURL = ""
    THEN tasks
    ELSE Append(tasks, NewTask(d, reg))

\* ---------------------------------------------------------- the notification
\* A JID: user@server.
JIDs ==
    { [User |-> "628123456789", Server |-> "s.whatsapp.net"],
      [User |-> "120363", Server |-> "g.us"] }

\* jid.String()
JIDString(jid) == <<jid.User, "@", jid.Server>>

\* extractPhoneNumber(jid): jid.User
extractPhoneNumber(jid) == <<jid.User>>

\* An events.Message: the variants of evt.Message (Nil: not set; otherwise
\* the text or the caption, which may be empty) and the fields of evt.Info.
\* GetConversation() is "" when the variant is not set.
Texts(name) == {Nil, "", name}
Events ==
    [conv : {"", "conv"}, ext : {Nil, "ext"}, image : Texts("image"),
     video : {Nil, "video"}, audio : {Nil, "set"}, doc : {Nil, "doc"},
     fromMe : BOOLEAN, isGroup : BOOLEAN, sender : JIDs, chat : JIDs,
     push : {"Ann"}]

\* The content branch with video tested before image.
ContentVideoFirst(e) ==
    IF e.conv # "" THEN [kind |-> "text", body |-> e.conv]
    ELSE IF e.ext # Nil THEN [kind |-> "text", body |-> e.ext]
    ELSE IF e.video # Nil THEN [kind |-> "video", body |-> e.video]
    ELSE IF e.image # Nil THEN [kind |-> "image", body |-> e.image]
    ELSE IF e.audio # Nil THEN [kind |-> "audio", body |-> ""]
    ELSE IF e.doc # Nil THEN [kind |-> "document", body |-> e.doc]
    ELSE [kind |-> "text", body |-> ""]

\* HandleIncomingMessage, "Extract message content": MessageType starts as
\* "text" and Message as "".
Content(e) ==
    IF e.conv # "" THEN [kind |-> "text", body |-> e.conv]
    ELSE IF e.ext # Nil THEN [kind |-> "text", body |-> e.ext]
    ELSE IF e.image # Nil THEN [kind |-> "image", body |-> e.image]
    ELSE IF e.video # Nil THEN [kind |-> "video", body |-> e.video]
    ELSE IF e.audio # Nil THEN [kind |-> "audio", body |-> ""]
    ELSE IF e.doc # Nil THEN [kind |-> "document", body |-> e.doc]
    ELSE [kind |-> "text", body |-> ""]

\* The sender taken from evt.Info.Sender whoever sent the message.
ActualSenderAlwaysSender(e) == [jid |-> e.sender, name |-> IF e.fromMe THEN "Me" ELSE e.push]

\* HandleIncomingMessage, "Determine the actual sender".
ActualSender(e) ==
    IF e.fromMe
    THEN [jid |-> e.sender, name |-> "Me"]
    ELSE [jid |-> e.chat, name |-> e.push]

\* The WebhookPayload HandleIncomingMessage builds.
BuildPayload(d, e) ==
    [device_id |-> d,
     from |-> extractPhoneNumber(ActualSender(e).jid),
     from_name |-> ActualSender(e).name,
     message |-> Content(e).body,
     message_type |-> Content(e).kind,
     is_group |-> e.isGroup,
     group_jid |-> IF e.isGroup THEN extractPhoneNumber(e.chat) ELSE <<>>]

\* HandleIncomingMessage(deviceID, evt) with the payload it hands to
\* sendWithRetry kept for inspection.
Notify(d, e) ==
    /\ Serving
    /\ Len(tasks) < MaxTasks
    /\ tasks' = HandleIncomingMessage(d, TRUE)
    /\ resp' = IF tasks' = tasks
               THEN Resp("notify", "skipped")
               ELSE [op |-> "notify", res |-> "spawned", evt |-> e,
                     payload |-> BuildPayload(d, e)]
    /\ UNCHANGED <<loadPos, clients, heap, disk, polls, inbound, cfg, calls>>

\* eventHandler, *events.Message: dc.EventHandler, if it is set.
OnMessage(h) ==
    IF heap[h].EventHandler = "set"
    THEN HandleIncomingMessage(heap[h].DeviceID, Registered(h))
    ELSE tasks

\* An events.Message reaches eventHandler.
EvMessage(h, limit) ==
    /\ RouterFree
    /\ heap[h].link = "authed"
    /\ inbound < limit /\ Len(tasks) < limit
    /\ inbound' = IF Registered(h) THEN inbound + 1 ELSE inbound
    /\ tasks' = OnMessage(h)
    /\ UNCHANGED <<loadPos, clients, heap, disk, resp, polls, cfg, calls>>

\* A constant backoff of one second.
BackoffConstant(attempt) == 1

\* A backoff that grows by one second per attempt.
BackoffLinear(attempt) == attempt + 1

\* time.Duration(1<<uint(attempt)) * time.Second
Backoff(attempt) == 2 ^ attempt

\* The loop with attempt <= w.retryCount.
LoopHeadInclusive(t) ==
    IF t.attempt <= cfg.retryCount
    THEN [t EXCEPT !.pc = "send", !.sent = @ + 1, !.slept = 0]
    ELSE [t EXCEPT !.pc = "done", !.slept = 0, !.gap = 0]

\* for attempt < w.retryCount: the next w.send starts, or the loop ends.
LoopHead(t) ==
    IF t.attempt < cfg.retryCount
    THEN [t EXCEPT !.pc = "send", !.sent = @ + 1, !.slept = 0]
    ELSE [t EXCEPT !.pc = "done", !.slept = 0, !.gap = 0]

\* The goroutine starts running.
TaskStart(i) ==
    /\ tasks[i].pc = "spawned"
    /\ tasks' = [tasks EXCEPT ![i] = LoopHead(@)]
    /\ UNCHANGED <<loadPos, clients, heap, disk, resp, polls, inbound, cfg, calls>>

\* w.send returns: nil on a 2xx status, an error otherwise.  After an error
\* the goroutine sleeps unless this was the last attempt.
AfterSend(t, ok) ==
    LET u == [t EXCEPT !.hist = Append(@, ok), !.gap = 0] IN
    IF ok THEN [u EXCEPT !.pc = "done"]
    ELSE IF t.attempt < cfg.retryCount - 1
         THEN [u EXCEPT !.pc = "sleep"]
         ELSE LoopHead([u EXCEPT !.attempt = @ + 1])

TaskSendEnd(i, ok) ==
    /\ tasks[i].pc = "send"
    /\ tasks' = [tasks EXCEPT ![i] = AfterSend(@, ok)]
    /\ UNCHANGED <<loadPos, clients, heap, disk, resp, polls, inbound, cfg, calls>>

\* time.Sleep(backoff) returns, no sooner than backoff later; attempt++.
TaskWake(i) ==
    /\ tasks[i].pc = "sleep"
    /\ tasks[i].slept >= Backoff(tasks[i].attempt)
    /\ tasks' = [tasks EXCEPT ![i] =
                   LoopHead([@ EXCEPT !.attempt = @ + 1, !.gap = tasks[i].slept])]
    /\ UNCHANGED <<loadPos, clients, heap, disk, resp, polls, inbound, cfg, calls>>

\* A second passes.
Tick ==
    /\ \E i \in 1..Len(tasks) : tasks[i].pc = "sleep" /\ tasks[i].slept < MaxSlept
    /\ tasks' = [i \in 1..Len(tasks) |->
                   IF tasks[i].pc = "sleep"
                   THEN [tasks[i] EXCEPT !.slept = Min(@ + 1, MaxSlept)]
                   ELSE tasks[i]]
    /\ UNCHANGED <<loadPos, clients, heap, disk, resp, polls, inbound, cfg, calls>>

\* ------------------------------------------------------------ pairing relay
\* A receive that leaves the value in the channel.
RecvPeek(q) == q

\* <-QRChan on a channel that holds a value: the oldest value leaves.
Recv(q) == Tail(q)

\* The response of GetQRCode "connected" branches.
\* The "Connected" response without the phone.
ConnectedRespNoPhone(ph, mid, est) ==
    [Resp("poll", "connected") EXCEPT !.mid = mid, !.est = est]

ConnectedResp(ph, mid, est) ==
    [Resp("poll", "connected") EXCEPT !.phone = ph, !.mid = mid, !.est = est]

CodeResp(c, mid) ==
    [Resp("poll", "code") EXCEPT !.code = c, !.mid = mid]

\* GetQRCode that answers a missing session like an expired wait.
PollStartTimeoutOnMissing(p, d) ==
    /\ Serving
    /\ polls[p].pc = "idle"
    /\ LET h == GetSession(d) IN
       IF h = NoHandle
       THEN /\ resp' = Resp("poll", "timeout")
            /\ UNCHANGED <<heap, polls>>
       ELSE LET s == heap[h] IN
            IF s.Connected
            THEN /\ resp' = ConnectedResp(s.Phone, FALSE, s.established)
                 /\ UNCHANGED <<heap, polls>>
            ELSE IF IsLoggedIn(s) /\ s.StoreID # Nil
            THEN /\ heap' = [heap EXCEPT ![h].Connected = TRUE,
                                         ![h].Phone = s.StoreID,
                                         ![h].ConnectedAt = SetTime]
                 /\ resp' = ConnectedResp(s.StoreID, FALSE, s.established)
                 /\ polls' = MarkMid(h)
            ELSE IF s.QRChan # <<>>
            THEN /\ heap' = [heap EXCEPT ![h].QRChan = Recv(@), ![h].consumed = TRUE]
                 /\ resp' = CodeResp(Head(s.QRChan), FALSE)
                 /\ UNCHANGED polls
            ELSE /\ polls' = [polls EXCEPT ![p] = [IdlePoll EXCEPT !.pc = "wait1", !.h = h]]
                 /\ UNCHANGED <<heap, resp>>
    /\ UNCHANGED <<loadPos, clients, disk, inbound, tasks, cfg, calls>>

\* GetQRCode up to the first select: not found; already connected; logged in
\* but not marked connected (the handler marks it); a code is ready; or the
\* request blocks.
PollStart(p, d) ==
    /\ Serving
    /\ polls[p].pc = "idle"
    /\ LET h == GetSession(d) IN
       IF h = NoHandle
       THEN /\ resp' = Resp("poll", "NotFound")
            /\ UNCHANGED <<heap, polls>>
       ELSE LET s == heap[h] IN
            IF s.Connected
            THEN /\ resp' = ConnectedResp(s.Phone, FALSE, s.established)
                 /\ UNCHANGED <<heap, polls>>
            ELSE IF IsLoggedIn(s) /\ s.StoreID # Nil
            THEN /\ heap' = [heap EXCEPT ![h].Connected = TRUE,
                                         ![h].Phone = s.StoreID,
                                         ![h].ConnectedAt = SetTime]
                 /\ resp' = ConnectedResp(s.StoreID, FALSE, s.established)
                 /\ polls' = MarkMid(h)
            ELSE IF s.QRChan # <<>>
            THEN /\ heap' = [heap EXCEPT ![h].QRChan = Recv(@), ![h].consumed = TRUE]
                 /\ resp' = CodeResp(Head(s.QRChan), FALSE)
                 /\ UNCHANGED polls
            ELSE /\ polls' = [polls EXCEPT ![p] = [IdlePoll EXCEPT !.pc = "wait1", !.h = h]]
                 /\ UNCHANGED <<heap, resp>>
    /\ UNCHANGED <<loadPos, clients, disk, inbound, tasks, cfg, calls>>

\* A select that answers every expiry with the timeout response.
TimeoutRespAlways(s, mid) ==
    [Resp("poll", "timeout") EXCEPT !.mid = mid]

\* What GetQRCode answers when a timer fires with a stored ID present
\* (after timeout1) or absent/present (after timeout2).
TimeoutResp(s, mid) ==
    IF s.StoreID = Nil
    THEN [Resp("poll", "timeout") EXCEPT !.mid = mid]
    ELSE ConnectedResp(s.StoreID, mid, s.established)

\* case <-time.After(timeout1): without a stored ID the second select, with a
\* stored ID the "Connected" response.
PollTimeout1(p) ==
    /\ polls[p].pc = "wait1"
    /\ LET s == heap[polls[p].h] IN
       IF s.StoreID = Nil
       THEN /\ polls' = [polls EXCEPT ![p].pc = "wait2"]
            /\ UNCHANGED resp
       ELSE /\ resp' = TimeoutResp(s, polls[p].mid)
            /\ polls' = [polls EXCEPT ![p] = IdlePoll]
    /\ heap' = Collect(heap, clients, polls')
    /\ UNCHANGED <<loadPos, clients, disk, inbound, tasks, cfg, calls>>

\* case <-time.After(timeout2 - timeout1)
PollTimeout2(p) ==
    /\ polls[p].pc = "wait2"
    /\ resp' = TimeoutResp(heap[polls[p].h], polls[p].mid)
    /\ polls' = [polls EXCEPT ![p] = IdlePoll]
    /\ heap' = Collect(heap, clients, polls')
    /\ UNCHANGED <<loadPos, clients, disk, inbound, tasks, cfg, calls>>

\* timeout1 := 5 * time.Second; timeout2 := 15 * time.Second
Timeout1 == 5
Timeout2 == 15

\* A second select that waits timeout2 on its own.
SecondWaitWhole == Timeout2

\* time.After(timeout2 - timeout1)
SecondWait == Timeout2 - Timeout1

\* The second at which the timer of the select a request is blocked in
\* fires, counted from the start of the first select.
Deadline(pc) == IF pc = "wait1" THEN Timeout1 ELSE Timeout1 + SecondWait

\* A second passes for a blocked request whose timer has not fired.
PollTick(p) ==
    /\ polls[p].pc \in {"wait1", "wait2"}
    /\ polls[p].waited < Deadline(polls[p].pc)
    /\ polls' = [polls EXCEPT ![p].waited = @ + 1]
    /\ UNCHANGED <<loadPos, clients, heap, disk, resp, inbound, tasks, cfg, calls>>

\* case <-time.After(timeout1), when the five seconds are over.
PollTimer1(p) ==
    /\ polls[p].waited = Deadline("wait1")
    /\ PollTimeout1(p)

\* case <-time.After(timeout2 - timeout1), when the time is over.
PollTimer2(p) ==
    /\ polls[p].waited = Deadline("wait2")
    /\ PollTimeout2(p)

\* case qrCode := <-deviceClient.QRChan, for a request that was blocked.
PollGotCode(p) ==
    /\ polls[p].pc = "got"
    /\ resp' = CodeResp(polls[p].code, polls[p].mid)
    /\ polls' = [polls EXCEPT ![p] = IdlePoll]
    /\ heap' = Collect(heap, clients, polls')
    /\ UNCHANGED <<loadPos, clients, disk, inbound, tasks, cfg, calls>>

\* ------------------------------------------------------ status and sending
\* handlers.GetSessionStatus: "not_found", or the status with the Phone field,
\* and connected_at only for a connected session.
StatusResp(d) ==
    LET h == GetSession(d) IN
    IF h = NoHandle
    THEN [op |-> "status", res |-> "not_found", phone |-> "", at |-> ZeroTime]
    ELSE [op |-> "status", res |-> StatusOf(heap[h]), phone |-> heap[h].Phone,
          at |-> IF heap[h].Connected THEN heap[h].ConnectedAt ELSE ZeroTime]

GetStatus(d) ==
    /\ Serving
    /\ resp' = StatusResp(d)
    /\ UNCHANGED <<loadPos, clients, heap, disk, polls, inbound, tasks, cfg, calls>>

\* SendMessage, SendGroupMessage, SendMediaMessage, SendGroupMediaMessage.
SendKinds == {"text", "group", "media", "groupMedia"}

\* The answer of a send with the calls it made to the client (Upload,
\* SendMessage).
SendResp(kind, res, called) ==
    [op |-> "send", kind |-> kind, res |-> res, called |-> called]

\* The checks every send starts with, without the one for Connected.
SendGateNoConnected(d) ==
    IF GetSession(d) = NoHandle THEN "NotFound" ELSE "pass"

\* The checks every send starts with: GetSession, then client.Connected.
SendGate(d) ==
    IF GetSession(d) = NoHandle THEN "NotFound"
    ELSE IF ~heap[GetSession(d)].Connected THEN "NotConnected"
    ELSE "pass"

\* What a send past its checks can answer: os.ReadFile and Client.Upload for
\* media, types.ParseJID for groups, then Client.SendMessage, each of which
\* may fail.
SendOutcomes(kind) ==
    LET media == kind \in {"media", "groupMedia"}
        group == kind \in {"group", "groupMedia"}
        up == IF media THEN 1 ELSE 0
    IN  (IF media THEN {SendResp(kind, "ReadFailed", 0),
                        SendResp(kind, "UploadFailed", 1)} ELSE {})
        \cup (IF group THEN {SendResp(kind, "InvalidJID", up)} ELSE {})
        \cup {SendResp(kind, "SendFailed", up + 1), SendResp(kind, "sent", up + 1)}

Send(d, kind) ==
    /\ Serving
    /\ IF SendGate(d) = "pass"
       THEN resp' \in SendOutcomes(kind)
       ELSE resp' = SendResp(kind, SendGate(d), 0)
    /\ UNCHANGED <<loadPos, clients, heap, disk, polls, inbound, tasks, cfg, calls>>

\* ------------------------------------------------- CreateSession, by steps
\* A call of WhatsAppService.CreateSession: "called", "locked" (s.mu.Lock()
\* returned), "checked" (no session was found), "returned"; its result and
\* the session it stored.
NewCall(d) ==
    [op |-> "create", dev |-> d, pc |-> "called", res |-> "", h |-> NoHandle]

\* CreateSession that does not take s.mu.
MuFreeAlways == TRUE

\* s.mu.Lock() returns when nobody holds s.mu: a writer holds it from
\* s.mu.Lock() to the deferred s.mu.Unlock(), a reader from s.mu.RLock() to
\* s.mu.RUnlock().
MuFree ==
    \A i \in 1..Len(calls) : calls[i].pc \notin {"locked", "checked", "rlocked"}

CreateCall(d) ==
    /\ Serving
    /\ Len(calls) < MaxCalls
    /\ calls' = Append(calls, NewCall(d))
    /\ UNCHANGED <<loadPos, clients, heap, disk, resp, polls, inbound, tasks, cfg>>

\* s.mu.Lock()
CreateLock(i) ==
    /\ calls[i].op = "create"
    /\ calls[i].pc = "called"
    /\ MuFree
    /\ calls' = [calls EXCEPT ![i].pc = "locked"]
    /\ UNCHANGED <<loadPos, clients, heap, disk, resp, polls, inbound, tasks, cfg>>

\* if _, exists := s.clients[deviceID]; exists { return ... }
CreateCheck(i) ==
    /\ calls[i].op = "create"
    /\ calls[i].pc = "locked"
    /\ calls' = IF clients[calls[i].dev] # NoHandle
                THEN [calls EXCEPT ![i].pc = "returned", ![i].res = "AlreadyExists"]
                ELSE [calls EXCEPT ![i].pc = "checked"]
    /\ UNCHANGED <<loadPos, clients, heap, disk, resp, polls, inbound, tasks, cfg>>

\* The rest of CreateSession: the directory, the store, the client,
\* s.clients[deviceID] = deviceClient, the go statement and the return; and
\* SetupEventHandler in the handler.
CreateStore(i) ==
    LET d == calls[i].dev IN
    /\ calls[i].pc = "checked"
    /\ Len(heap) < MaxHandles
    /\ heap' = Append(heap,
         [NewDeviceClient(d, GetFirstDevice(d)) EXCEPT
             !.link = "starting", !.EventHandler = "set"])
    /\ clients' = [clients EXCEPT ![d] = Len(heap) + 1]
    /\ disk' = [disk EXCEPT ![d] = IF @ = NoDir THEN NoID ELSE @]
    /\ calls' = [calls EXCEPT ![i].pc = "returned", ![i].res = "ok",
                              ![i].h = Len(heap) + 1]
    /\ UNCHANGED <<loadPos, resp, polls, inbound, tasks, cfg>>

\* ------------------------------------------- the other registry calls, by steps
\* A call of GetSession ("get"), GetAllSessions ("list"), Logout ("logout")
\* or DeleteSession ("delete"): "called", "rlocked" (s.mu.RLock() returned)
\* or "locked" (s.mu.Lock() returned), "found" (Logout after s.mu.RUnlock()),
\* "returned".
NewOp(op, d) == [NewCall(d) EXCEPT !.op = op]

\* The calls that take s.mu.RLock().
ReadOps == {"get", "list", "logout"}

\* s.mu.RLock() that does not wait for a writer.
NoWriterAlways == TRUE

\* s.mu.RLock() returns when no writer holds s.mu.
NoWriter == \A i \in 1..Len(calls) : calls[i].pc \notin {"locked", "checked"}

OpCall(op, d) ==
    /\ Serving
    /\ Len(calls) < MaxCalls
    /\ calls' = Append(calls, NewOp(op, d))
    /\ UNCHANGED <<loadPos, clients, heap, disk, resp, polls, inbound, tasks, cfg>>

\* s.mu.RLock()
OpRLock(i) ==
    /\ calls[i].op \in ReadOps
    /\ calls[i].pc = "called"
    /\ NoWriter
    /\ calls' = [calls EXCEPT ![i].pc = "rlocked"]
    /\ UNCHANGED <<loadPos, clients, heap, disk, resp, polls, inbound, tasks, cfg>>

\* The read of s.clients and the s.mu.RUnlock() after it: GetSession and
\* GetAllSessions return, Logout returns only when there is no session.
OpRead(i) ==
    LET h == clients[calls[i].dev] IN
    /\ calls[i].pc = "rlocked"
    /\ calls' =
         IF calls[i].op = "list"
         THEN [calls EXCEPT ![i].pc = "returned", ![i].res = "ok"]
         ELSE IF h = NoHandle
         THEN [calls EXCEPT ![i].pc = "returned", ![i].res = "NotFound"]
         ELSE IF calls[i].op = "get"
         THEN [calls EXCEPT ![i].pc = "returned", ![i].res = "ok", ![i].h = h]
         ELSE [calls EXCEPT ![i].pc = "found", ![i].h = h]
    /\ UNCHANGED <<loadPos, clients, heap, disk, resp, polls, inbound, tasks, cfg>>

\* Logout after the lookup: client.Client.Disconnect(); client.Connected =
\* false, with s.mu released; a session deleted and freed since the lookup
\* is written to no more.
OpLogout(i) ==
    LET h == calls[i].h IN
    /\ calls[i].pc = "found"
    /\ heap' = IF Live(h)
               THEN [heap EXCEPT ![h] = [Disconnect(@) EXCEPT !.Connected = FALSE]]
               ELSE heap
    /\ calls' = [calls EXCEPT ![i].pc = "returned", ![i].res = "ok"]
    /\ UNCHANGED <<loadPos, clients, disk, resp, polls, inbound, tasks, cfg>>

\* DeleteSession: s.mu.Lock()
OpLock(i) ==
    /\ calls[i].op = "delete"
    /\ calls[i].pc = "called"
    /\ MuFree
    /\ calls' = [calls EXCEPT ![i].pc = "locked"]
    /\ UNCHANGED <<loadPos, clients, heap, disk, resp, polls, inbound, tasks, cfg>>

\* DeleteSession under s.mu: the lookup, Disconnect, delete(s.clients,
\* deviceID), os.RemoveAll, and the deferred s.mu.Unlock().
OpDelete(i) ==
    LET d == calls[i].dev IN
    /\ calls[i].op = "delete"
    /\ calls[i].pc = "locked"
    /\ IF clients[d] = NoHandle
       THEN /\ calls' = [calls EXCEPT ![i].pc = "returned", ![i].res = "NotFound"]
            /\ UNCHANGED <<clients, heap, disk>>
       ELSE \E rmOk \in BOOLEAN :
            /\ clients' = [clients EXCEPT ![d] = NoHandle]
            /\ heap' = Collect([h \in Handles |->
                 LET s == IF h = clients[d] THEN Disconnect(heap[h]) ELSE heap[h]
                 IN IF rmOk /\ s.DeviceID = d THEN [s EXCEPT !.backed = FALSE] ELSE s],
                 clients', polls)
            /\ disk' = RemoveAll(d, rmOk)
            /\ calls' = [calls EXCEPT ![i].pc = "returned",
                                      ![i].res = IF rmOk THEN "ok" ELSE "error",
                                      ![i].h = clients[d]]
    /\ UNCHANGED <<loadPos, resp, polls, inbound, tasks, cfg>>

\* --------------------------------------- eventHandler, *events.Connected, by steps
\* An events.Connected in eventHandler: "called", "flagged" (dc.Connected =
\* true done), "stamped" (dc.ConnectedAt = time.Now() done), "returned".
Handling(h) ==
    \E i \in 1..Len(calls) :
        calls[i].op = "connected" /\ calls[i].h = h /\ calls[i].pc # "returned"

\* events.Connected reaches eventHandler.
ConnCall(h) ==
    /\ RouterFree
    /\ heap[h].evPending
    /\ ~Handling(h)
    /\ Len(calls) < MaxCalls
    /\ calls' = Append(calls, [NewOp("connected", heap[h].DeviceID) EXCEPT !.h = h])
    /\ heap' = [heap EXCEPT ![h].evPending = FALSE, ![h].established = TRUE]
    /\ UNCHANGED <<loadPos, clients, disk, resp, polls, inbound, tasks, cfg>>

\* dc.Connected = true
ConnFlag(i) ==
    LET h == calls[i].h IN
    /\ calls[i].op = "connected" /\ calls[i].pc = "called"
    /\ polls' = IF heap[h].Connected THEN polls ELSE MarkMid(h)
    /\ heap' = [heap EXCEPT ![h].Connected = TRUE]
    /\ calls' = [calls EXCEPT ![i].pc = "flagged"]
    /\ UNCHANGED <<loadPos, clients, disk, resp, inbound, tasks, cfg>>

\* dc.ConnectedAt = time.Now()
ConnStamp(i) ==
    LET h == calls[i].h IN
    /\ calls[i].op = "connected" /\ calls[i].pc = "flagged"
    /\ heap' = [heap EXCEPT ![h].ConnectedAt = SetTime]
    /\ calls' = [calls EXCEPT ![i].pc = "stamped"]
    /\ UNCHANGED <<loadPos, clients, disk, resp, polls, inbound, tasks, cfg>>

\* if dc.Client.Store.ID != nil { dc.Phone = dc.Client.Store.ID.User }
ConnPhone(i) ==
    LET h == calls[i].h IN
    /\ calls[i].op = "connected" /\ calls[i].pc = "stamped"
    /\ heap' = Collect([heap EXCEPT ![h].Phone =
                           IF heap[h].StoreID # Nil THEN heap[h].StoreID ELSE @],
                       clients, polls)
    /\ calls' = [calls EXCEPT ![i].pc = "returned"]
    /\ UNCHANGED <<loadPos, clients, disk, resp, polls, inbound, tasks, cfg>>

\* ------------------------------------------- eventHandler, *events.QR, by steps
\* An events.QR with n codes in eventHandler: the code it is offering, the
\* codes still to offer, where it is ("send1": the outer select, "drain":
\* the inner select, "send2": the send after the receive, "returned") and
\* what became of the code before ("sent", "replaced", "skipped").
NewQR(h, n) ==
    [op |-> "qr", dev |-> heap[h].DeviceID, pc |-> "send1", res |-> "", h |-> h,
     code |-> heap[h].emitted + 1, left |-> n]

Offering(h) ==
    \E i \in 1..Len(calls) :
        calls[i].op = "qr" /\ calls[i].h = h /\ calls[i].pc # "returned"

\* A channel that always takes one more value.
HasRoomAlways(q) == TRUE

\* The buffer of make(chan string, 5) is not full.
HasRoom(q) == Len(q) < QRChanCap

\* A send on QRChan can proceed: a receiver is blocked on it or the buffer
\* has room.
CanSend(h) == Waiting(h) # {} \/ HasRoom(heap[h].QRChan)

\* QRChan <- c: the value goes to a blocked receiver, if there is one, and
\* into the buffer otherwise.
ChanSend(h, c) ==
    IF Waiting(h) # {}
    THEN /\ \E p \in Waiting(h) :
              polls' = [polls EXCEPT ![p].pc = "got", ![p].code = c]
         /\ heap' = [heap EXCEPT ![h].consumed = TRUE]
    ELSE /\ heap' = [heap EXCEPT ![h].QRChan = Append(@, c)]
         /\ UNCHANGED polls

\* for _, code := range v.Codes: the next code, or the end of the handler.
NextCode(c, outcome) ==
    IF c.left = 1
    THEN [c EXCEPT !.pc = "returned", !.res = outcome, !.left = 0]
    ELSE [c EXCEPT !.pc = "send1", !.res = outcome, !.code = @ + 1, !.left = @ - 1]

\* An events.QR with n codes reaches eventHandler.
QRCall(h, n, limit) ==
    LET kept == SelectSeq(calls, LAMBDA c : ~(c.op = "qr" /\ c.pc = "returned")) IN
    /\ RouterFree
    /\ heap[h].link = "open" /\ heap[h].StoreID = Nil
    /\ heap[h].emitted + n <= limit
    /\ ~Offering(h)
    /\ Len(kept) < MaxCalls
    /\ calls' = Append(kept, NewQR(h, n))
    /\ heap' = [heap EXCEPT ![h].emitted = @ + n]
    /\ UNCHANGED <<loadPos, clients, disk, resp, polls, inbound, tasks, cfg>>

\* select { case dc.QRChan <- code: ... default: ... }
QRSend1(i) ==
    LET h == calls[i].h IN
    /\ calls[i].op = "qr" /\ calls[i].pc = "send1"
    /\ IF CanSend(h)
       THEN /\ ChanSend(h, calls[i].code)
            /\ calls' = [calls EXCEPT ![i] = NextCode(@, "sent")]
       ELSE /\ calls' = [calls EXCEPT ![i].pc = "drain"]
            /\ UNCHANGED <<heap, polls>>
    /\ UNCHANGED <<loadPos, clients, disk, resp, inbound, tasks, cfg>>

\* select { case <-dc.QRChan: ... default: } : the oldest code is received,
\* or, on an empty channel, the code in hand is skipped.
QRDrain(i) ==
    LET h == calls[i].h IN
    /\ calls[i].op = "qr" /\ calls[i].pc = "drain"
    /\ IF heap[h].QRChan # <<>>
       THEN /\ heap' = [heap EXCEPT ![h].QRChan = Recv(@)]
            /\ calls' = [calls EXCEPT ![i].pc = "send2"]
       ELSE /\ calls' = [calls EXCEPT ![i] = NextCode(@, "skipped")]
            /\ UNCHANGED heap
    /\ UNCHANGED <<loadPos, clients, disk, resp, polls, inbound, tasks, cfg>>

\* dc.QRChan <- code after the receive: a send that waits until it can
\* proceed.
QRSend2(i) ==
    LET h == calls[i].h IN
    /\ calls[i].op = "qr" /\ calls[i].pc = "send2"
    /\ CanSend(h)
    /\ ChanSend(h, calls[i].code)
    /\ calls' = [calls EXCEPT ![i] = NextCode(@, "replaced")]
    /\ UNCHANGED <<loadPos, clients, disk, resp, inbound, tasks, cfg>>

\* ---------------------------------------------------- SendMessage, by steps
\* A call of WhatsAppService.SendMessage: "called", "passed" (GetSession
\* found the session and client.Connected was true), "returned".  reg and
\* conn: whether the session was in the table, and marked connected, at the
\* moment client.Client.SendMessage was called.
NewSend(d) ==
    [op |-> "send", dev |-> d, pc |-> "called", res |-> "", h |-> NoHandle,
     reg |-> FALSE, conn |-> FALSE]

SendCall(d) ==
    /\ Serving
    /\ Len(calls) < MaxCalls
    /\ calls' = Append(calls, NewSend(d))
    /\ UNCHANGED <<loadPos, clients, heap, disk, resp, polls, inbound, tasks, cfg>>

\* GetSession and the check of client.Connected.
SendChecks(i) ==
    /\ calls[i].op = "send"
    /\ calls[i].pc = "called"
    /\ calls' = IF SendGate(calls[i].dev) = "pass"
                THEN [calls EXCEPT ![i].pc = "passed", ![i].h = GetSession(calls[i].dev)]
                ELSE [calls EXCEPT ![i].pc = "returned", ![i].res = SendGate(calls[i].dev)]
    /\ UNCHANGED <<loadPos, clients, heap, disk, resp, polls, inbound, tasks, cfg>>

\* client.Client.SendMessage(ctx, jid, msg) on the session the lookup gave,
\* and the return of its result.
SendInvoke(i) ==
    LET h == calls[i].h IN
    /\ calls[i].op = "send"
    /\ calls[i].pc = "passed"
    /\ \E res \in {"sent", "SendFailed"} :
         calls' = [calls EXCEPT ![i].pc = "returned", ![i].res = res,
                                ![i].reg = Registered(h),
                                ![i].conn = Live(h) /\ heap[h].Connected]
    /\ UNCHANGED <<loadPos, clients, heap, disk, resp, polls, inbound, tasks, cfg>>

\* ------------------------------------------------------- shutdown, by steps
\* main after <-quit: waService.GetAllSessions() gives the sessions of that
\* moment ("snap"); the loop calls session.Client.Disconnect() on each, in
\* the order the map gave them ("todo": those still to come); "walked" when
\* the loop is over.
ShuttingDown == \E i \in 1..Len(calls) : calls[i].op = "shutdown"

GetAllSessions == {h \in Handles : Registered(h)}

ShutdownCall ==
    /\ Serving
    /\ ~ShuttingDown
    /\ Len(calls) < MaxCalls
    /\ calls' = Append(calls,
         [op |-> "shutdown", dev |-> "", pc |-> "walking", res |-> "",
          h |-> NoHandle, snap |-> GetAllSessions, todo |-> GetAllSessions])
    /\ UNCHANGED <<loadPos, clients, heap, disk, resp, polls, inbound, tasks, cfg>>

\* session.Client.Disconnect() for one session of the snapshot.
ShutdownDisconnect(i) ==
    /\ calls[i].op = "shutdown" /\ calls[i].pc = "walking"
    /\ \E h \in calls[i].todo :
         /\ heap' = [heap EXCEPT ![h] = Disconnect(@)]
         /\ calls' = [calls EXCEPT ![i].todo = @ \ {h}]
    /\ UNCHANGED <<loadPos, clients, disk, resp, polls, inbound, tasks, cfg>>

\* The loop is over; srv.Shutdown(ctx) follows.
ShutdownWalked(i) ==
    /\ calls[i].op = "shutdown" /\ calls[i].pc = "walking"
    /\ calls[i].todo = {}
    /\ calls' = [calls EXCEPT ![i].pc = "walked"]
    /\ UNCHANGED <<loadPos, clients, heap, disk, resp, polls, inbound, tasks, cfg>>

\* --------------------------------------------------------- specifications
\* The registry and the event router.
Next ==
    \/ LoadStep
    \/ \E d \in Devices : CreateSession(d)
    \/ \E d \in Devices : Logout(d)
    \/ \E d \in Devices : DeleteSession(d)
    \/ \E h \in Handles : AsyncConnect(h)
    \/ \E h \in Handles : EvQR(h, MaxQR, MaxQR)
    \/ \E h \in Handles, ph \in Phones : EvPairSuccess(h, ph)
    \/ \E h \in Handles : LibAuth(h)
    \/ \E h \in Handles : EvConnected(h)
    \/ \E h \in Handles : EvDisconnected(h)

Spec == Init /\ [][Next]_vars

\* The pairing relay of one device: the code queue, its pollers and the
\* events that end a pairing.
InitRelay == InitWith(DefaultEnv, OneUsed)

NextRelay ==
    \/ LoadStep
    \/ CreateSession("d1")
    \/ Logout("d1")
    \/ \E h \in Handles : AsyncConnect(h)
    \/ \E h \in Handles, n \in 1..MaxBatch : EvQR(h, n, MaxPush)
    \/ \E h \in Handles, ph \in Phones : EvPairSuccess(h, ph)
    \/ \E h \in Handles : LibAuth(h)
    \/ \E h \in Handles : EvConnected(h)
    \/ \E h \in Handles : EvDisconnected(h)
    \/ \E p \in Pollers : PollStart(p, "d1")
    \/ \E p \in Pollers : PollTimeout1(p)
    \/ \E p \in Pollers : PollTimeout2(p)
    \/ \E p \in Pollers : PollGotCode(p)

SpecRelay == InitRelay /\ [][NextRelay]_vars

\* The pairing relay started on session directories without a stored ID.
InitUnpaired ==
    InitWith(DefaultEnv, {dk \in OneUsed : dk["d1"] \notin Phones})

SpecUnpaired == InitUnpaired /\ [][NextRelay]_vars

\* The webhook dispatcher behind the event router of one device.
WebhookEnvs ==
    RetryEnvs \cup
    { [enabled |-> FALSE, url |-> "http://hook", retry |-> 0],
      [enabled |-> TRUE, url |-> "", retry |-> 0] }

InitWebhook == InitWith(WebhookEnvs, OnePaired)

NextWebhook ==
    \/ LoadStep
    \/ CreateSession("d1")
    \/ \E h \in Handles : AsyncConnect(h)
    \/ \E h \in Handles : EvQR(h, MaxQR, MaxQR)
    \/ \E h \in Handles, ph \in Phones : EvPairSuccess(h, ph)
    \/ \E h \in Handles : LibAuth(h)
    \/ \E h \in Handles : EvConnected(h)
    \/ \E h \in Handles : EvDisconnected(h)
    \/ \E h \in Handles : EvMessage(h, MaxTasks)
    \/ \E i \in 1..Len(tasks) : TaskStart(i)
    \/ \E i \in 1..Len(tasks), ok \in BOOLEAN : TaskSendEnd(i, ok)
    \/ \E i \in 1..Len(tasks) : TaskWake(i)
    \/ Tick

SpecWebhook == InitWebhook /\ [][NextWebhook]_vars

\* The dispatcher under every WEBHOOK_RETRY from 1 to MaxRetry.
BackoffEnvs ==
    { [enabled |-> TRUE, url |-> "http://hook", retry |-> r] : r \in 1..MaxRetry }

InitBackoff == InitWith(BackoffEnvs, OnePaired)

NextBackoff ==
    \/ LoadStep
    \/ CreateSession("d1")
    \/ \E h \in Handles : AsyncConnect(h)
    \/ \E h \in Handles : LibAuth(h)
    \/ \E h \in Handles : EvConnected(h)
    \/ \E h \in Handles : EvMessage(h, MaxTasks)
    \/ \E i \in 1..Len(tasks) : TaskStart(i)
    \/ \E i \in 1..Len(tasks), ok \in BOOLEAN : TaskSendEnd(i, ok)
    \/ \E i \in 1..Len(tasks) : TaskWake(i)
    \/ Tick

SpecBackoff == InitBackoff /\ [][NextBackoff]_vars

\* The operations on one device that comes and goes beside one that never has
\* a session.
InitOps == InitWith(DefaultEnv, OneUsed)

NextOps ==
    \/ LoadStep
    \/ CreateSession("d1")
    \/ \E d \in Devices : Logout(d)
    \/ \E d \in Devices : DeleteSession(d)
    \/ \E d \in Devices : GetStatus(d)
    \/ \E d \in Devices, kind \in SendKinds : Send(d, kind)
    \/ \E h \in Handles : AsyncConnect(h)
    \/ \E h \in Handles : EvQR(h, MaxQR, MaxQR)
    \/ \E h \in Handles, ph \in Phones : EvPairSuccess(h, ph)
    \/ \E h \in Handles : LibAuth(h)
    \/ \E h \in Handles : EvConnected(h)
    \/ \E h \in Handles : EvDisconnected(h)

SpecOps == InitOps /\ [][NextOps]_vars

\* Concurrent CreateSession calls.
InitCreate == InitWith(DefaultEnv, OneUsed)

NextCreate ==
    \/ LoadStep
    \/ \E d \in Devices : CreateCall(d)
    \/ \E i \in 1..Len(calls) : CreateLock(i)
    \/ \E i \in 1..Len(calls) : CreateCheck(i)
    \/ \E i \in 1..Len(calls) : CreateStore(i)
    \/ \E h \in Handles : AsyncConnect(h)

SpecCreate == InitCreate /\ [][NextCreate]_vars

\* Concurrent calls of the registry on one device: who holds s.mu.
InitMutex == InitWith(DefaultEnv, OneUsed)

NextMutex ==
    \/ LoadStep
    \/ CreateCall("d1")
    \/ \E op \in ReadOps \cup {"delete"} : OpCall(op, "d1")
    \/ \E i \in 1..Len(calls) : CreateLock(i)
    \/ \E i \in 1..Len(calls) : CreateCheck(i)
    \/ \E i \in 1..Len(calls) : CreateStore(i)
    \/ \E i \in 1..Len(calls) : OpRLock(i)
    \/ \E i \in 1..Len(calls) : OpRead(i)
    \/ \E i \in 1..Len(calls) : OpLogout(i)
    \/ \E i \in 1..Len(calls) : OpLock(i)
    \/ \E i \in 1..Len(calls) : OpDelete(i)

SpecMutex == InitMutex /\ [][NextMutex]_vars

\* The session's fields as requests see them while eventHandler handles an
\* events.Connected statement by statement; no session is paired at the start.
InitFields == InitWith(DefaultEnv, {dk \in OneUsed : dk["d1"] \notin Phones})

NextFields ==
    \/ LoadStep
    \/ CreateSession("d1")
    \/ Logout("d1")
    \/ GetStatus("d1")
    \/ \E h \in Handles : AsyncConnect(h)
    \/ \E h \in Handles : EvQR(h, MaxQR, MaxQR)
    \/ \E h \in Handles, ph \in Phones : EvPairSuccess(h, ph)
    \/ \E h \in Handles : LibAuth(h)
    \/ \E h \in Handles : ConnCall(h)
    \/ \E i \in 1..Len(calls) : ConnFlag(i)
    \/ \E i \in 1..Len(calls) : ConnStamp(i)
    \/ \E i \in 1..Len(calls) : ConnPhone(i)
    \/ \E h \in Handles : ~Handling(h) /\ EvDisconnected(h)

SpecFields == InitFields /\ [][NextFields]_vars

\* The code queue of one unpaired device, with eventHandler offering the
\* codes statement by statement beside the polls.
InitQueue == InitWith(DefaultEnv, {dk \in OneUsed : dk["d1"] \notin Phones})

NextQueue ==
    \/ LoadStep
    \/ CreateSession("d1")
    \/ \E h \in Handles : AsyncConnect(h)
    \/ \E h \in Handles, n \in 1..MaxBatch : QRCall(h, n, MaxPush)
    \/ \E i \in 1..Len(calls) : QRSend1(i)
    \/ \E i \in 1..Len(calls) : QRDrain(i)
    \/ \E i \in 1..Len(calls) : QRSend2(i)
    \/ \E p \in Pollers : PollStart(p, "d1")
    \/ \E p \in Pollers : PollTimeout1(p)
    \/ \E p \in Pollers : PollTimeout2(p)
    \/ \E p \in Pollers : PollGotCode(p)

SpecQueue == InitQueue /\ [][NextQueue]_vars

\* The same with eventHandler's goroutine scheduled again and again.
SpecQueueFair ==
    SpecQueue /\ WF_vars(\E i \in 1..Len(calls) : QRSend1(i) \/ QRDrain(i) \/ QRSend2(i))

\* One GET /qr request on an unpaired device, with the clock of its selects.
InitPollTime == InitWith(DefaultEnv, {dk \in OneUsed : dk["d1"] \notin Phones})

NextPollTime ==
    \/ LoadStep
    \/ CreateSession("d1")
    \/ \E h \in Handles : AsyncConnect(h)
    \/ \E h \in Handles : EvQR(h, MaxQR, MaxQR)
    \/ \E h \in Handles, ph \in Phones : EvPairSuccess(h, ph)
    \/ \E h \in Handles : LibAuth(h)
    \/ \E h \in Handles : EvConnected(h)
    \/ PollStart(1, "d1")
    \/ PollTick(1)
    \/ PollTimer1(1)
    \/ PollTimer2(1)
    \/ PollGotCode(1)

SpecPollTime == InitPollTime /\ [][NextPollTime]_vars

\* The same with the request's goroutine and its timers running on.
SpecPollTimeFair ==
    SpecPollTime
    /\ WF_vars(PollTick(1) \/ PollTimer1(1) \/ PollTimer2(1) \/ PollGotCode(1))

\* The start of the program over every state of the session directories.
InitLoad == InitWith(DefaultEnv, [Devices -> DiskStates \cup {NoStore}])

NextLoad ==
    \/ LoadStep
    \/ \E d \in Devices : GetStatus(d)
    \/ \E h \in Handles : LibAuth(h)
    \/ \E h \in Handles : EvConnected(h)

SpecLoad == InitLoad /\ [][NextLoad]_vars

\* The same with GetWhatsAppService running on.
SpecLoadFair == SpecLoad /\ WF_vars(LoadStep)

\* The program from its start to the end of main's disconnect loop; requests
\* are served until the loop begins.
InitShutdown == InitWith(DefaultEnv, OneUsed)

NextShutdown ==
    \/ LoadStep
    \/ ~ShuttingDown /\ CreateSession("d1")
    \/ \E d \in Devices : GetStatus(d)
    \/ \E h \in Handles : AsyncConnect(h)
    \/ \E h \in Handles : EvQR(h, MaxQR, MaxQR)
    \/ \E h \in Handles, ph \in Phones : EvPairSuccess(h, ph)
    \/ \E h \in Handles : LibAuth(h)
    \/ \E h \in Handles : EvConnected(h)
    \/ \E h \in Handles : EvDisconnected(h)
    \/ ShutdownCall
    \/ \E i \in 1..Len(calls) : ShutdownDisconnect(i)
    \/ \E i \in 1..Len(calls) : ShutdownWalked(i)

SpecShutdown == InitShutdown /\ [][NextShutdown]_vars

\* Delivery under every kind of WEBHOOK_RETRY: negative, unset or zero, and
\* positive.
MinRetry == -1

AnyRetryEnvs ==
    { [enabled |-> TRUE, url |-> "http://hook", retry |-> r] : r \in MinRetry..2 }

InitAnyRetry == InitWith(AnyRetryEnvs, OnePaired)

SpecAnyRetry == InitAnyRetry /\ [][NextBackoff]_vars

\* The same with the delivery goroutines and the clock running on.
SpecAnyRetryFair ==
    SpecAnyRetry
    /\ WF_vars(\E i \in 1..Len(tasks) :
                  TaskStart(i) \/ (\E ok \in BOOLEAN : TaskSendEnd(i, ok)) \/ TaskWake(i))
    /\ WF_vars(Tick)

\* SendMessage on a session loaded at startup, beside the calls and events
\* that end the session or its connection.
InitSend == InitWith(DefaultEnv, OnePaired)

NextSend ==
    \/ LoadStep
    \/ Logout("d1")
    \/ DeleteSession("d1")
    \/ \E h \in Handles : LibAuth(h)
    \/ \E h \in Handles : EvConnected(h)
    \/ \E h \in Handles : EvDisconnected(h)
    \/ SendCall("d1")
    \/ \E i \in 1..Len(calls) : SendChecks(i)
    \/ \E i \in 1..Len(calls) : SendInvoke(i)

SpecSend == InitSend /\ [][NextSend]_vars

\* HandleIncomingMessage over the events it can be given.
NotifyEnvs == DefaultEnv \cup {[enabled |-> FALSE, url |-> "http://hook", retry |-> 0]}

InitNotify == InitWith(NotifyEnvs, {[d \in Devices |-> NoDir]})

NextNotify ==
    \/ LoadStep
    \/ \E e \in Events : Notify("d1", e)

SpecNotify == InitNotify /\ [][NextNotify]_vars

\* ------------------------------------------------------------------ claims
\* C1: a create(deviceId) for a device that has a session answers
\* AlreadyExists and changes neither the table nor any session (state, phone,
\* connectedAt, pairing queue) nor the session directory.
C1_DuplicateCreateRejected ==
    [][\A d \in Devices :
         (clients[d] # NoHandle /\ CreateSession(d)) =>
            /\ resp' = Resp("create", "AlreadyExists")
            /\ clients' = clients /\ heap' = heap /\ disk' = disk]_vars

\* A duplicate create was answered for a connected session with a queued code.
C1_Witness ==
    /\ resp = Resp("create", "AlreadyExists")
    /\ \E d \in Devices :
         /\ clients[d] # NoHandle
         /\ heap[clients[d]].Connected
         /\ heap[clients[d]].Phone # ""
         /\ heap[clients[d]].QRChan # <<>>

\* A session as a create after a successful delete must leave it.
Fresh(s) ==
    /\ StatusOf(s) = "waiting_for_qr_scan"
    /\ ~s.Connected /\ s.Phone = "" /\ s.ConnectedAt = ZeroTime
    /\ s.QRChan = <<>> /\ s.StoreID = Nil

StatusEdges ==
    { <<"waiting_for_qr_scan", "connected">>,
      <<"connected", "disconnected">>,
      <<"disconnected", "connected">> }

\* C3: the status reported for a session changes only along AwaitingPairing
\* -> Connected, Connected -> Disconnected and Disconnected -> Connected.
C3_OnlyStateMachineEdges ==
    [][\A h \in Handles :
         (Live(h) /\ Live(h)') =>
            \/ StatusOf(heap'[h]) = StatusOf(heap[h])
            \/ <<StatusOf(heap[h]), StatusOf(heap'[h])>> \in StatusEdges]_vars

\* C4: a session is reported connected (by its Connected flag, which the
\* status query reads, or by the result of a pairing poll) only after an
\* events.Connected has been delivered to it.
C4_ConnectedOnlyAfterEstablished ==
    /\ \A h \in Handles : heap[h].Connected => heap[h].established
    /\ (resp.op = "poll" /\ resp.res = "connected") => resp.est

\* The dispatcher is enabled with a URL.
WebhookOn == cfg.enabled /\ cfg.webhookURL # ""

\* C5: with the dispatcher enabled with a URL, every events.Message delivered
\* to a registered session hands one notification to the dispatcher, and the
\* event changes no session.
C5_EveryInboundForwarded ==
    [][\A h \in Handles :
         (WebhookOn /\ Registered(h) /\ EvMessage(h, MaxTasks)) =>
            /\ Len(tasks') = Len(tasks) + 1
            /\ heap' = heap /\ clients' = clients]_vars

\* C6: while no code has been taken from a session's pairing queue, the queue
\* holds the last 5 codes pushed, in push order (all of them when fewer than 6
\* were pushed).
C6_QueueKeepsLastFive ==
    \A h \in Handles :
        (Live(h) /\ ~heap[h].consumed) =>
            heap[h].QRChan = LastN(Range(1, heap[h].emitted), 5)

\* More than 5 codes were pushed with no consumer: the oldest are evicted.
C6_Witness ==
    \E h \in Handles :
        /\ ~heap[h].consumed
        /\ heap[h].emitted >= 6
        /\ Len(heap[h].QRChan) = 5
        /\ Head(heap[h].QRChan) = heap[h].emitted - 4

\* C7: a pairing poll during whose wait the session became connected answers
\* "connected", never a timeout or a code.
C7_ConnectedMidWait ==
    (resp.op = "poll" /\ resp.mid) => resp.res = "connected"

\* A poll waited on a session that never produced a code and became connected
\* meanwhile.
C7_Witness ==
    /\ resp.op = "poll" /\ resp.mid /\ resp.res = "connected"
    /\ \E h \in Handles : Registered(h) /\ heap[h].emitted = 0

\* Every attempt of the task failed.
AllFailed(t) == \A k \in 1..Len(t.hist) : ~t.hist[k]

\* C8: a delivery task never makes more than retryCount attempts, and one
\* whose attempts all failed ends after exactly retryCount of them.
C8_ExactlyRetryCountAttempts ==
    \A i \in 1..Len(tasks) :
        /\ tasks[i].sent <= cfg.retryCount
        /\ Len(tasks[i].hist) <= cfg.retryCount
        /\ (tasks[i].pc = "done" /\ AllFailed(tasks[i])) =>
              (tasks[i].sent = cfg.retryCount
                 /\ Len(tasks[i].hist) = cfg.retryCount)

\* A notification was dropped after three failed attempts.
C8_Witness ==
    \E i \in 1..Len(tasks) :
        /\ cfg.retryCount = 3
        /\ tasks[i].pc = "done"
        /\ tasks[i].hist = <<FALSE, FALSE, FALSE>>

\* C9: with retryCount = 3 a task that failed twice and then succeeded made
\* exactly three attempts; the second attempt starts at least 1 s after the
\* first failed and the third at least 2 s after the second failed; a success
\* is the last attempt of its task.
C9_BackoffThenSuccess ==
    \A i \in 1..Len(tasks) :
        LET t == tasks[i] IN
        /\ (cfg.retryCount = 3 /\ t.hist = <<FALSE, FALSE, TRUE>>) =>
              (t.sent = 3 /\ t.pc = "done")
        /\ (t.pc = "send" /\ t.sent = 2) => t.gap >= 1
        /\ (t.pc = "send" /\ t.sent = 3) => t.gap >= 2
        /\ \A k \in 1..Len(t.hist) :
              t.hist[k] => (k = Len(t.hist) /\ t.sent = k /\ t.pc = "done")

\* Two failures, then a success on the third attempt.
C9_Witness ==
    \E i \in 1..Len(tasks) :
        /\ cfg.retryCount = 3
        /\ tasks[i].hist = <<FALSE, FALSE, TRUE>>
        /\ tasks[i].pc = "done"

C11_AbsentIsNotFound ==
    [][\A d \in Devices :
         clients[d] = NoHandle =>
            /\ GetStatus(d) => resp'.res = "not_found"
            /\ Logout(d) => resp' = Resp("logout", "NotFound")
            /\ DeleteSession(d) => resp' = Resp("delete", "NotFound")
            /\ (GetStatus(d) \/ Logout(d) \/ DeleteSession(d)) =>
                  (clients' = clients /\ heap' = heap /\ disk' = disk)]_vars

\* A delete of an absent device was refused beside a connected session.
C11_Witness ==
    /\ resp = Resp("delete", "NotFound")
    /\ clients["d2"] = NoHandle
    /\ clients["d1"] # NoHandle
    /\ heap[clients["d1"]].Connected
    /\ disk["d1"] \in Phones

\* C12: a logout of a connected session closes its connection and leaves it
\* in the table with status disconnected, its Phone and ConnectedAt as they
\* were.
C12_LogoutKeepsIdentity ==
    [][\A d \in Devices :
         (clients[d] # NoHandle /\ heap[clients[d]].Connected /\ Logout(d)) =>
            LET h == clients[d] IN
            /\ resp' = Resp("logout", "ok")
            /\ clients' = clients
            /\ heap'[h].link = "closed"
            /\ GetSessionStatus(d)' = "disconnected"
            /\ heap'[h].Phone = heap[h].Phone
            /\ heap'[h].ConnectedAt = heap[h].ConnectedAt]_vars

\* A session that was connected as 628123456789 has been logged out.
C12_Witness ==
    /\ resp = Resp("logout", "ok")
    /\ \E h \in Handles :
         /\ Registered(h) /\ heap[h].established
         /\ ~heap[h].Connected /\ heap[h].link = "closed"
         /\ heap[h].Phone = "628123456789" /\ heap[h].ConnectedAt = SetTime

\* C13: a create that succeeds leaves the new session in the table, reported
\* as AwaitingPairing with an empty Phone, and returns before Client.Connect
\* has been tried.
C13_CreateYieldsAwaitingPairing ==
    [][\A d \in Devices :
         (CreateSession(d) /\ resp' = Resp("create", "ok")) =>
            LET h == GetSession(d)' IN
            /\ h # NoHandle /\ h \notin Handles
            /\ GetSessionStatus(d)' = "waiting_for_qr_scan"
            /\ heap'[h].Phone = ""
            /\ heap'[h].link = "starting"]_vars

\* C14: once events.Connected has been handled for a registered session
\* whose stored ID is P, the status query answers connected, phone P and a
\* connected_at.
C14_ConnectedReportsIdentity ==
    [][\A h \in Handles :
         (EvConnected(h) /\ Registered(h) /\ heap[h].StoreID # Nil) =>
            StatusResp(heap[h].DeviceID)' =
               [op |-> "status", res |-> "connected",
                phone |-> heap[h].StoreID, at |-> SetTime]]_vars

\* The status query answered connected as 628123456789 after the event.
C14_Witness ==
    /\ resp = [op |-> "status", res |-> "connected",
               phone |-> "628123456789", at |-> SetTime]
    /\ \E h \in Handles :
         Registered(h) /\ heap[h].established /\ heap[h].Connected
           /\ heap[h].EventHandler = "set"

\* C15: a send for a device with no session answers NotFound, one for a
\* session that is not Connected answers NotConnected, and neither calls
\* Client.Upload or Client.SendMessage or changes a session.
C15_SendNeedsConnectedSession ==
    [][\A d \in Devices, kind \in SendKinds :
         Send(d, kind) =>
            /\ clients[d] = NoHandle => resp' = SendResp(kind, "NotFound", 0)
            /\ (clients[d] # NoHandle /\ ~heap[clients[d]].Connected) =>
                  resp' = SendResp(kind, "NotConnected", 0)
            /\ resp'.res \in {"NotFound", "NotConnected"} => resp'.called = 0
            /\ resp'.called > 0 =>
                  (clients[d] # NoHandle /\ heap[clients[d]].Connected)
            /\ heap' = heap /\ clients' = clients]_vars

\* A media send was refused for a paired session that is logged out.
C15_Witness ==
    /\ resp = SendResp("media", "NotConnected", 0)
    /\ clients["d1"] # NoHandle
    /\ ~heap[clients["d1"]].Connected
    /\ heap[clients["d1"]].StoreID # Nil
    /\ heap[clients["d1"]].established

\* C16: with the dispatcher disabled or without a URL there is never a
\* delivery task, and an events.Message leaves the sessions as they are and
\* the router free for the next event.
C16_DisabledDispatchNoOp ==
    [][~WebhookOn =>
         /\ tasks' = <<>>
         /\ \A h \in Handles :
               EvMessage(h, MaxTasks) => (heap' = heap /\ RouterFree')]_vars

\* Messages reached HandleIncomingMessage of a disabled dispatcher.
C16_Witness ==
    /\ ~cfg.enabled /\ cfg.webhookURL # ""
    /\ inbound > 0
    /\ tasks = <<>>
    /\ \E h \in Handles : Registered(h) /\ heap[h].EventHandler = "set"

\* C17: a pairing poll of a session that is Connected answers "connected"
\* with the session's Phone at once: the request does not wait and takes no
\* code from the queue.
C17_PollConnectedShortCircuits ==
    [][\A p \in Pollers :
         (clients["d1"] # NoHandle /\ heap[clients["d1"]].Connected
            /\ PollStart(p, "d1")) =>
            /\ resp'.op = "poll" /\ resp'.res = "connected"
            /\ resp'.phone = heap[clients["d1"]].Phone
            /\ polls' = polls
            /\ heap' = heap]_vars

\* A connected session with codes left in its queue was polled.
C17_Witness ==
    /\ resp = ConnectedResp("628123456789", FALSE, TRUE)
    /\ clients["d1"] # NoHandle
    /\ heap[clients["d1"]].Connected
    /\ heap[clients["d1"]].QRChan # <<>>
    /\ \A p \in Pollers : polls[p].pc = "idle"

\* C18: a pairing poll of a device with no session answers NotFound at once:
\* the request does not wait and never answers a timeout.
C18_PollAbsentIsNotFound ==
    [][\A p \in Pollers :
         (clients["d1"] = NoHandle /\ PollStart(p, "d1")) =>
            /\ resp' = Resp("poll", "NotFound")
            /\ polls' = polls
            /\ heap' = heap]_vars

\* A poll was refused for a device that has a paired directory but no session.
C18_Witness ==
    /\ resp = Resp("poll", "NotFound")
    /\ clients["d1"] = NoHandle
    /\ disk["d1"] \in Phones
    /\ \A p \in Pollers : polls[p].pc = "idle"

\* C19: logout leaves every session directory as it is; a delete that
\* succeeds removes the table entry and the session directory of its device;
\* and a session directory disappears in no other step.
C19_OnlyDeleteRemovesStore ==
    [][\A d \in Devices :
         /\ disk' # disk => ~Logout(d)
         /\ (resp' = Resp("delete", "ok") /\ DeleteSession(d)) =>
               (clients'[d] = NoHandle /\ disk'[d] = NoDir)
         /\ (disk[d] # NoDir /\ disk'[d] = NoDir) =>
               (resp' = Resp("delete", "ok") /\ DeleteSession(d))]_vars

\* d1 was deleted with its directory while d2, paired and logged out, keeps
\* its stored ID.
C19_Witness ==
    /\ resp = Resp("delete", "ok")
    /\ clients["d1"] = NoHandle /\ disk["d1"] = NoDir
    /\ clients["d2"] # NoHandle /\ disk["d2"] \in Phones
    /\ heap[clients["d2"]].link = "closed"
    /\ ~heap[clients["d2"]].Connected
    /\ heap[clients["d2"]].established

\* The calls for d that returned res.
Returned(d, res) ==
    {i \in 1..Len(calls) :
        calls[i].dev = d /\ calls[i].pc = "returned" /\ calls[i].res = res}

WriteHolders == {i \in 1..Len(calls) : calls[i].pc \in {"locked", "checked"}}
ReadHolders == {i \in 1..Len(calls) : calls[i].pc = "rlocked"}

C21_ReadersXorOneWriter ==
    \/ WriteHolders = {}
    \/ Cardinality(WriteHolders) = 1 /\ ReadHolders = {}

\* A delete holds the table while a reader and a create wait for it.
C21_Witness ==
    \E i, j, k \in 1..Len(calls) :
        /\ calls[i].op = "delete" /\ calls[i].pc = "locked"
        /\ calls[j].op \in ReadOps /\ calls[j].pc = "called"
        /\ calls[k].op = "create" /\ calls[k].pc = "called"

\* C22: Connected, Phone and ConnectedAt of a session are written only by
\* the event router (events.Connected, events.Disconnected) and by a logout
\* or a delete; a poll for the pairing code, like every other reading
\* request, leaves them as they are.
MutableFields(s) == <<s.Connected, s.Phone, s.ConnectedAt>>

C22_OnlyRouterAndLogoutWrite ==
    [][\A h \in Handles :
          (Live(h) /\ heap'[h].link # "gone"
             /\ MutableFields(heap'[h]) # MutableFields(heap[h]))
          => \/ EvConnected(h)
             \/ EvDisconnected(h)
             \/ Logout(heap[h].DeviceID)
             \/ DeleteSession(heap[h].DeviceID)]_vars

\* C23: in every state a request can observe, a session whose Connected
\* flag is true has a phone and a connectedAt, and a session that has a phone
\* or a connectedAt is connected or was connected before.
WasConnected(h) ==
    \/ heap[h].Connected
    \/ \E i \in 1..Len(calls) :
          calls[i].op = "connected" /\ calls[i].h = h /\ calls[i].pc # "called"

C23_IdentityAndTimeWithConnected ==
    \A h \in Handles :
        Registered(h) =>
            /\ heap[h].Connected =>
                  heap[h].Phone # "" /\ heap[h].ConnectedAt = SetTime
            /\ (heap[h].Phone # "" \/ heap[h].ConnectedAt = SetTime) =>
                  WasConnected(h)

\* C24: an events.Disconnected clears the session's Connected flag, so that
\* a session that was connected is reported disconnected, and leaves its
\* phone, its connectedAt, its code queue, the table and every other session
\* as they were.
C24_ConnectionLostKeepsTheRest ==
    [][\A h \in Handles :
          EvDisconnected(h) =>
             /\ ~heap'[h].Connected
             /\ heap[h].Connected => StatusOf(heap'[h]) = "disconnected"
             /\ heap'[h].Phone = heap[h].Phone
             /\ heap'[h].ConnectedAt = heap[h].ConnectedAt
             /\ heap'[h].QRChan = heap[h].QRChan
             /\ clients' = clients
             /\ \A g \in Handles \ {h} : heap'[g] = heap[g]]_vars

\* A registered session that lost its connection after it was connected,
\* with its phone, its connectedAt and a queued code still there.
C24_Witness ==
    \E h \in Handles :
        /\ Registered(h) /\ heap[h].established /\ heap[h].link = "open"
        /\ ~heap[h].Connected
        /\ heap[h].Phone # "" /\ heap[h].ConnectedAt = SetTime
        /\ heap[h].QRChan # <<>>

\* C25: every code eventHandler offers to QRChan is admitted, whatever the
\* polls do between its statements: with room, or with a poll waiting, the
\* code goes in and nothing is removed; on a full channel the oldest code, and
\* only it, is removed and the new code goes in.
Admitted(h, c, q) ==
    \/ heap'[h].QRChan = Append(q, c)
    \/ \E p \in Pollers :
          polls[p].pc # "got" /\ polls'[p].pc = "got" /\ polls'[p].code = c

C25_EveryCodeAdmitted ==
    [][\A i \in 1..Len(calls) :
          LET h == calls[i].h
              c == calls[i].code
              q == heap[h].QRChan
          IN /\ (QRSend1(i) /\ CanSend(h)) => Admitted(h, c, q)
             /\ (QRSend1(i) /\ ~CanSend(h)) => heap' = heap
             /\ QRDrain(i) => /\ q # <<>>
                              /\ heap'[h].QRChan = Tail(q)
                              /\ calls'[i].pc = "send2"
             /\ QRSend2(i) => Admitted(h, c, q)]_vars

\* QRChan is within its capacity and every statement eventHandler stands
\* before while it offers a code can be taken.
NeverBlocked ==
    /\ \A h \in Handles : Len(heap[h].QRChan) <= QRChanCap
    /\ \A i \in 1..Len(calls) :
          (calls[i].op = "qr" /\ calls[i].pc # "returned") =>
              ENABLED (QRSend1(i) \/ QRDrain(i) \/ QRSend2(i))

\* C26: QRChan never holds more than five codes, and offering a code never
\* blocks eventHandler: whether polls run beside it, wait on the channel, or
\* there is no poll at all, each of its statements can be taken, and the
\* handler, given the processor, finishes every events.QR it has begun.
C26_BoundedAndHandlerCompletes ==
    /\ []NeverBlocked
    /\ \A h \in 1..MaxHandles :
          (h \in Handles /\ Offering(h)) ~> (h \in Handles /\ ~Offering(h))

\* The handler stands before the send that follows the receive on a full
\* channel, and no poll is waiting.
C26_Witness ==
    \E i \in 1..Len(calls) :
        /\ calls[i].op = "qr" /\ calls[i].pc = "send2"
        /\ Len(heap[calls[i].h].QRChan) = QRChanCap - 1
        /\ Waiting(calls[i].h) = {}

\* The codes of session h that are still to be returned: those in QRChan and
\* those already handed to a blocked poll.  The codes are numbered in the
\* order eventHandler offers them, so a number stands for one code instance.
Held(h) == {p \in Pollers : polls[p].h = h /\ polls[p].pc = "got"}
InFlight(h) ==
    {heap[h].QRChan[k] : k \in 1..Len(heap[h].QRChan)} \cup {polls[p].code : p \in Held(h)}
OncePerCode(h) ==
    /\ \A j, k \in 1..Len(heap[h].QRChan) : j # k => heap[h].QRChan[j] # heap[h].QRChan[k]
    /\ \A p, r \in Held(h) : p # r => polls[p].code # polls[r].code
    /\ \A p \in Held(h), k \in 1..Len(heap[h].QRChan) : polls[p].code # heap[h].QRChan[k]

\* C27: a poll that answers with a code answers with one code, the one at
\* the head of QRChan or the one handed to it while it was blocked, and the
\* code is gone with the answer: no code is in the channel twice or with two
\* polls, and a code enters only when eventHandler sends it, so no code is
\* ever returned to two polls, however many of them wait on the session.
C27_EachCodeToOnePoll ==
    [][\A h \in Handles :
          /\ OncePerCode(h)
          /\ \A p \in Pollers :
                (PollStart(p, heap[h].DeviceID) /\ GetSession(heap[h].DeviceID) = h
                   /\ polls'[p].pc = "idle" /\ resp'.res = "code") =>
                     /\ heap[h].QRChan # <<>>
                     /\ resp'.code = Head(heap[h].QRChan)
                     /\ heap'[h].QRChan = Tail(heap[h].QRChan)
                     /\ resp'.code \notin InFlight(h)'
          /\ \A p \in Held(h) :
                PollGotCode(p) =>
                     /\ resp'.res = "code" /\ resp'.code = polls[p].code
                     /\ heap'[h].link # "gone" => resp'.code \notin InFlight(h)'
          /\ heap'[h].link # "gone" =>
                \A c \in InFlight(h)' \ InFlight(h) :
                    \E i \in 1..Len(calls) :
                        /\ calls[i].op = "qr" /\ calls[i].h = h /\ calls[i].code = c
                        /\ QRSend1(i) \/ QRSend2(i)]_vars

\* Two polls blocked on the same session have each been handed a code of
\* its own.
C27_Witness ==
    \E p, r \in Pollers :
        /\ p # r /\ polls[p].h = polls[r].h
        /\ polls[p].pc = "got" /\ polls[r].pc = "got"
        /\ polls[p].code # polls[r].code

\* What a blocked request has waited: at most five seconds in the first
\* select, and between five and fifteen in the second.
WithinTimeouts ==
    \A p \in Pollers :
        /\ polls[p].pc = "wait1" => polls[p].waited <= 5
        /\ polls[p].pc = "wait2" => polls[p].waited >= 5 /\ polls[p].waited <= 15
        /\ polls[p].pc = "got" => polls[p].waited <= 15

\* C28: a poll that finds a session which is not connected ends with exactly
\* one response, a code, a connected result or a timeout: it waits at most 5
\* seconds in the first select, enters the second, of 10 seconds, only when
\* the five seconds are over, no code came and the client has no stored ID,
\* and has its response no later than 15 seconds after it began to wait.
C28_PollEndsWithinFifteenSeconds ==
    /\ []WithinTimeouts
    /\ [][\A p \in Pollers :
             /\ (polls[p].pc = "wait1" /\ polls'[p].pc = "wait2") =>
                    /\ polls[p].waited = 5
                    /\ heap[polls[p].h].StoreID = Nil
                    /\ resp' = resp
             /\ (polls[p].pc # "idle" /\ polls'[p].pc = "idle") =>
                    /\ polls[p].waited <= 15
                    /\ resp'.op = "poll"
                    /\ resp'.res \in {"code", "connected", "timeout"}
             /\ (polls[p].pc # "idle" /\ polls'[p].pc # "idle" /\ resp' # resp) =>
                    resp'.op # "poll"]_vars
    /\ \A p \in Pollers : (polls[p].pc # "idle") ~> (polls[p].pc = "idle")

\* A request in the fifteenth second of its wait, in the second select.
C28_Witness ==
    \E p \in Pollers : polls[p].pc = "wait2" /\ polls[p].waited = 15

\* C29: after the failed attempt k of a delivery, k less than retryCount,
\* sendWithRetry sleeps 2^(k-1) seconds, 1, 2, 4, ..., and then starts attempt
\* k+1: time.Sleep is asked for that long, returns no sooner and can return
\* then; after the failed attempt retryCount it does not sleep, and this is
\* so for every retryCount from 1 to MaxRetry.
C29_SleepDoublesBetweenAttempts ==
    [][\A i \in 1..Len(tasks) :
          LET t == tasks[i]
              k == t.sent
          IN /\ t.pc = "sleep" =>
                   /\ k >= 1 /\ k < cfg.retryCount
                   /\ Len(t.hist) = k /\ ~t.hist[k]
                   /\ Backoff(t.attempt) = 2 ^ (k - 1)
                   /\ t.slept >= 2 ^ (k - 1) => ENABLED TaskWake(i)
             /\ TaskWake(i) =>
                   /\ t.slept >= 2 ^ (k - 1)
                   /\ tasks'[i].pc = "send" /\ tasks'[i].sent = k + 1
             /\ (TaskSendEnd(i, FALSE) /\ k < cfg.retryCount) =>
                   tasks'[i].pc = "sleep" /\ tasks'[i].slept = 0
             /\ (TaskSendEnd(i, FALSE) /\ k = cfg.retryCount) =>
                   tasks'[i].pc = "done"]_vars

\* With retryCount 4 a delivery has slept four seconds after its third
\* failed attempt.
C29_Witness ==
    /\ cfg.retryCount = 4
    /\ \E i \in 1..Len(tasks) :
          /\ tasks[i].pc = "sleep" /\ tasks[i].sent = 3 /\ tasks[i].slept = 4
          /\ tasks[i].hist = <<FALSE, FALSE, FALSE>>

\* The directory entry loadExistingSessions is at has a session.db.
HasStore(d) == disk[d] \notin {NoDir, NoStore}

\* C30: loadExistingSessions takes the device directories one by one: an
\* entry without session.db is skipped; an entry loadSession fails on is not
\* registered; whatever became of the entries before, the loop goes on to
\* the next one, which can be loaded as well as fail, leaves the other
\* devices and the directories alone, and comes to its end.
C30_EachDirectoryOnItsOwn ==
    /\ [][LoadStep =>
            LET d == DevSeq[loadPos] IN
            /\ loadPos' = loadPos + 1
            /\ \A e \in Devices \ {d} : clients'[e] = clients[e]
            /\ \A h \in Handles : heap'[h] = heap[h]
            /\ disk' = disk
            /\ ~HasStore(d) => clients'[d] = NoHandle /\ heap' = heap
            /\ clients'[d] # NoHandle => heap'[clients'[d]].DeviceID = d]_vars
    /\ [](~Serving =>
            LET d == DevSeq[loadPos] IN
            /\ ENABLED LoadStep
            /\ HasStore(d) =>
                 /\ ENABLED (LoadStep /\ clients'[d] = NoHandle)
                 /\ ENABLED (LoadStep /\ clients'[d] # NoHandle))
    /\ <>Serving

\* The first directory has a stored ID and was not loaded, the second was
\* loaded after it, and the program serves.
C30_Witness ==
    /\ Serving
    /\ disk[DevSeq[1]] \in Phones /\ clients[DevSeq[1]] = NoHandle
    /\ clients[DevSeq[2]] # NoHandle

\* C31: a session loadSession registers is stored under its device ID, and
\* it is marked connected, with the stored phone and a connectedAt, exactly
\* when client.IsLoggedIn() is true at that moment; otherwise it is stored not
\* connected, with an empty phone and no connectedAt.
C31_LoadedMarkedIffLoggedIn ==
    [][LoadStep =>
          LET d == DevSeq[loadPos] IN
          clients'[d] # NoHandle =>
             LET s == heap'[clients'[d]] IN
             /\ s.DeviceID = d
             /\ s.Connected <=> IsLoggedIn(s)
             /\ s.Connected =>
                   s.Phone = disk[d] /\ s.Phone # "" /\ s.ConnectedAt = SetTime
             /\ ~s.Connected => s.Phone = "" /\ s.ConnectedAt = ZeroTime]_vars

\* Both devices were loaded, one logged in and marked connected before any
\* event reached it, the other not logged in.
C31_Witness ==
    /\ Serving
    /\ \E h, g \in Handles :
          /\ Registered(h) /\ Registered(g)
          /\ heap[h].Connected /\ ~heap[h].established /\ heap[h].Phone \in Phones
          /\ ~heap[g].Connected /\ heap[g].link = "open" /\ heap[g].Phone = ""

\* C32: when main's shutdown loop is over, Disconnect was called on every
\* session GetAllSessions had given it, and none of these sessions is still
\* marked connected.
C32_ShutdownLeavesNoneConnected ==
    \A i \in 1..Len(calls) :
        (calls[i].op = "shutdown" /\ calls[i].pc = "walked") =>
            /\ calls[i].todo = {}
            /\ \A h \in calls[i].snap : ~heap[h].Connected

\* The variants of an event in the order they are to be tested, each with
\* whether it is populated, the kind it gives and the body it gives.
VariantsInOrder(e) ==
    << [has |-> e.conv # "", kind |-> "text", body |-> e.conv],
       [has |-> e.ext # Nil, kind |-> "text", body |-> e.ext],
       [has |-> e.image # Nil, kind |-> "image", body |-> e.image],
       [has |-> e.video # Nil, kind |-> "video", body |-> e.video],
       [has |-> e.audio # Nil, kind |-> "audio", body |-> ""],
       [has |-> e.doc # Nil, kind |-> "document", body |-> e.doc] >>

\* C33: the kind and the body of a notification are those of the first
\* populated variant of the event in the order plain text, extended text,
\* image, video, audio, document (the text or the caption, nothing for
\* audio); with no variant populated the kind is text and the body empty.
C33_FirstPopulatedVariantWins ==
    resp.op = "notify" /\ resp.res = "spawned" =>
        LET v == VariantsInOrder(resp.evt)
            P == {k \in 1..Len(v) : v[k].has}
        IN IF P = {}
           THEN resp.payload.message_type = "text" /\ resp.payload.message = ""
           ELSE LET k == CHOOSE k \in P : \A j \in P : k <= j
                IN /\ resp.payload.message_type = v[k].kind
                   /\ resp.payload.message = v[k].body

\* A notification for an event with both an image and a video is built from
\* the image.
C33_Witness ==
    /\ resp.op = "notify" /\ resp.res = "spawned"
    /\ resp.evt.conv = "" /\ resp.evt.ext = Nil
    /\ resp.evt.image = "image" /\ resp.evt.video = "video"
    /\ resp.payload.message_type = "image" /\ resp.payload.message = "image"


\* A notification was built from an event.
Notified == resp.op = "notify" /\ resp.res = "spawned"

\* The identity the sender of an event is taken from, and its display name.
SenderOf(e) == IF e.fromMe THEN e.sender ELSE e.chat
NameOf(e) == IF e.fromMe THEN "Me" ELSE e.push

C35_FailedDeleteLeavesRegistry ==
    [][\A d \in Devices :
         (DeleteSession(d) /\ resp'.res \in {"error", "NotFound"}) =>
             clients' = clients]_vars


\* C36: every live connection belongs to a registered session: the client
\* of a session DeleteSession removed is never connected again.
C36_LiveConnectionsAreRegistered ==
    \A h \in Handles : heap[h].link \in {"open", "authed"} => Registered(h)


\* C37: a poll is answered with a code only for a session that holds no
\* stored ID, whether the code was waiting in QRChan when the request came
\* or reached a request that was blocked.
C37_NoCodeForPairedSession ==
    [][\A p \in Pollers :
         /\ (PollStart(p, "d1") /\ polls'[p].pc = "idle" /\ resp'.res = "code") =>
                heap[GetSession("d1")].StoreID = Nil
         /\ PollGotCode(p) => heap[polls[p].h].StoreID = Nil]_vars


\* C38: a registered session whose connection is closed is not marked
\* connected: after Logout the state stays Disconnected, whatever
\* events.Connected was in flight when Logout ran.
C38_ClosedMeansNotConnected ==
    \A h \in Handles :
        (Registered(h) /\ heap[h].link = "closed") => ~heap[h].Connected


\* C39: client.Client.SendMessage is called only for a session that is, at
\* that moment, in the table and marked connected.
C39_SendOnlyWhileRegisteredAndConnected ==
    \A i \in 1..Len(calls) :
        (calls[i].op = "send" /\ calls[i].res \in {"sent", "SendFailed"}) =>
            calls[i].reg /\ calls[i].conn


\* C40: whatever WEBHOOK_RETRY is, a delivery task makes at least one
\* attempt before it ends, and every task ends.
C40_AtLeastOneAttemptAndEnds ==
    /\ [](\A i \in 1..Len(tasks) : tasks[i].pc = "done" => tasks[i].sent >= 1)
    /\ \A i \in 1..MaxTasks :
         (Len(tasks) >= i) ~> (Len(tasks) >= i /\ tasks[i].pc = "done")

====
